---------------------------- MODULE Spec2Model ----------------------------
(***************************************************************************)
(* Multi-source attribute reconciliation pipeline of the "Digitaler Twin"  *)
(* backend: the email, phone and endpoint plugins, their source adapters,  *)
(* the reconcilers (_deduplicate, _deduplicate_phones, combine_all), the   *)
(* DeHashed enrichment and the clear/insert persistence.                   *)
(*                                                                         *)
(* Python strings are modelled as sequences of one-character strings, so   *)
(* that cleaning, date formatting and date parsing are computed rather     *)
(* than assumed.  Python dicts are modelled as insertion-ordered sequences *)
(* of <<key, value>> pairs.                                                *)
(***************************************************************************)
EXTENDS Naturals, Integers, Sequences, FiniteSets, TLC

VARIABLES db, scan

vars == <<db, scan>>

-----------------------------------------------------------------------------
(* Characters and strings                                                  *)

UPPER == <<"A","B","C","D","E","F","G","H","I","J","K","L","M","N","O","P","Q","R","S","T","U","V","W","X","Y","Z">>

LOWER == <<"a","b","c","d","e","f","g","h","i","j","k","l","m","n","o","p","q","r","s","t","u","v","w","x","y","z">>

DIGITS == <<"0","1","2","3","4","5","6","7","8","9">>

\* The characters that occur in the model, in code-point order.
CODEPOINTS == <<" ","%","+","-",".","/","0","1","2","3","4","5","6","7","8","9",":","@","A","B","C","D","E","F","G","H","I","J","K","L","M","N","O","P","Q","R","S","T","U","V","W","X","Y","Z","_","a","b","c","d","e","f","g","h","i","j","k","l","m","n","o","p","q","r","s","t","u","v","w","x","y","z","ö">>

Ord(c) == CHOOSE i \in 1..Len(CODEPOINTS) : CODEPOINTS[i] = c

IsDigit(c) == \E i \in 1..Len(DIGITS) : DIGITS[i] = c

DigitVal(c) == (CHOOSE i \in 1..Len(DIGITS) : DIGITS[i] = c) - 1

\* str.lower() on one character
LowerChar(c) == IF \E i \in 1..Len(UPPER) : UPPER[i] = c THEN LOWER[CHOOSE i \in 1..Len(UPPER) : UPPER[i] = c] ELSE c

\* str.lower()
Lower(s) == [i \in 1..Len(s) |-> LowerChar(s[i])]

Drop(s, n) == SubSeq(s, n + 1, Len(s))

Take(s, n) == SubSeq(s, 1, IF n < Len(s) THEN n ELSE Len(s))

\* str.startswith / str.endswith
StartsWith(s, p) == Len(p) <= Len(s) /\ SubSeq(s, 1, Len(p)) = p

EndsWith(s, p) == Len(p) <= Len(s) /\ SubSeq(s, Len(s) - Len(p) + 1, Len(s)) = p

\* p in s
Contains(s, p) == \E i \in 0..(Len(s) - Len(p)) : SubSeq(s, i + 1, i + Len(p)) = p

\* str.replace(p, ""): one left-to-right pass over non-overlapping occurrences
RECURSIVE RemoveAll(_, _)
RemoveAll(s, p) == IF Len(s) < Len(p) THEN s ELSE IF StartsWith(s, p) THEN RemoveAll(Drop(s, Len(p)), p) ELSE <<s[1]>> \o RemoveAll(Tail(s), p)

RECURSIVE LStrip(_)
LStrip(s) == IF s # <<>> /\ s[1] = " " THEN LStrip(Tail(s)) ELSE s

RECURSIVE RStripChar(_, _)
RStripChar(s, c) == IF s # <<>> /\ s[Len(s)] = c THEN RStripChar(SubSeq(s, 1, Len(s) - 1), c) ELSE s

\* str.strip()
Strip(s) == RStripChar(LStrip(s), " ")

\* s < t for Python strings (lexicographic by code point)
RECURSIVE StrLess(_, _)
StrLess(s, t) == IF t = <<>> THEN FALSE ELSE IF s = <<>> THEN TRUE ELSE IF s[1] = t[1] THEN StrLess(Tail(s), Tail(t)) ELSE Ord(s[1]) < Ord(t[1])

\* s.rsplit(".", 1)[-1]: the text after the last ".", the whole string when there is none
RECURSIVE AfterLastDot(_)
AfterLastDot(s) == IF ~Contains(s, <<".">>) THEN s ELSE AfterLastDot(Tail(s))

-----------------------------------------------------------------------------
(* config.py                                                               *)

NO_DATA_FOUND_TEXT == <<"K","e","i","n","e"," ","D","a","t","e","n"," ","g","e","f","u","n","d","e","n">>

NO_DATA_SCANNED_TEXT == <<"A","t","t","r","i","b","u","t"," ","w","u","r","d","e"," ","n","o","c","h"," ","n","i","c","h","t"," ","g","e","s","c","a","n","n","t",".">>

NO_API_CREDITS_TEXT == <<"K","e","i","n","e"," ","A","b","f","r","a","g","e"," ","m","ö","g","l","i","c","h">>

JA == <<"J","a">>

NEIN == <<"N","e","i","n">>

ZERO_DATE == <<"0","0","0","0","-","0","0","-","0","0">>

\* date.today().isoformat() on the day of the scan
TODAY == <<"2","0","2","4","-","0","5","-","0","5">>


-----------------------------------------------------------------------------
(* Python dict (insertion-ordered) and sorted()                            *)

\* faulty variant of the membership test: no key is ever found
NeverHas(d, k) == FALSE

DictHas(d, k) == \E i \in 1..Len(d) : d[i][1] = k

DictGet(d, k) == d[CHOOSE i \in 1..Len(d) : d[i][1] = k][2]

\* d[k] = v: an existing key keeps its position, a new key is appended
DictSet(d, k, v) == IF DictHas(d, k) THEN [i \in 1..Len(d) |-> IF d[i][1] = k THEN <<k, v>> ELSE d[i]] ELSE Append(d, <<k, v>>)

\* list(d.values())
DictValues(d) == [i \in 1..Len(d) |-> d[i][2]]

DictKeys(d) == [i \in 1..Len(d) |-> d[i][1]]

\* sorted(s, key=...): stable; Less(a, b) compares the keys of a and b
SortedBy(s, Less(_, _)) == LET rank(i) == 1 + Cardinality({j \in 1..Len(s) : Less(s[j], s[i]) \/ (~Less(s[i], s[j]) /\ j < i)}) IN [k \in 1..Len(s) |-> s[CHOOSE i \in 1..Len(s) : rank(i) = k]]

\* [x for x in s if P(x)]
RECURSIVE FilterIdx(_, _, _)
FilterIdx(s, keep, i) == IF i > Len(s) THEN <<>> ELSE (IF i \in keep THEN <<s[i]>> ELSE <<>>) \o FilterIdx(s, keep, i + 1)

Filter(s, P(_)) == FilterIdx(s, {i \in 1..Len(s) : P(s[i])}, 1)

Range(s) == {s[i] : i \in 1..Len(s)}

-----------------------------------------------------------------------------
(* Dates                                                                   *)

\* datetime.min, and a parsed date, as the number YYYYMMDD
DATETIME_MIN == 10101

Num2(a, b) == 10 * DigitVal(a) + DigitVal(b)

DaysInMonth(y, m) == IF m \in {4, 6, 9, 11} THEN 30 ELSE IF m # 2 THEN 31 ELSE IF (y % 4 = 0 /\ y % 100 # 0) \/ y % 400 = 0 THEN 29 ELSE 28

\* datetime.strptime(s, "%Y%m%d") succeeds: eight characters, four digits of a
\* year >= 1, a two-digit month 01..12, a day 01..31 (or a blank and one digit)
\* that exists in that month.  Anything else raises ValueError.
StrptimeOk(s) == /\ Len(s) = 8
                 /\ \A i \in 1..6 : IsDigit(s[i])
                 /\ IsDigit(s[8]) /\ (IsDigit(s[7]) \/ s[7] = " ")
                 /\ LET y == 100 * Num2(s[1], s[2]) + Num2(s[3], s[4])
                        m == Num2(s[5], s[6])
                        d == IF s[7] = " " THEN DigitVal(s[8]) ELSE Num2(s[7], s[8])
                    IN y >= 1 /\ m \in 1..12 /\ d >= 1 /\ d <= DaysInMonth(y, m)

StrptimeVal(s) == 1000000 * Num2(s[1], s[2]) + 10000 * Num2(s[3], s[4]) + 100 * Num2(s[5], s[6]) + (IF s[7] = " " THEN DigitVal(s[8]) ELSE Num2(s[7], s[8]))

\* strptime(...).date().isoformat()
IsoFormat(s) == SubSeq(s, 1, 4) \o <<"-">> \o SubSeq(s, 5, 6) \o <<"-">> \o (IF s[7] = " " THEN <<"0", s[8]>> ELSE SubSeq(s, 7, 8))

\* _parse_date: strptime of the first eight characters, datetime.min when it raises
_parse_date(date_str) == IF StrptimeOk(Take(date_str, 8)) THEN StrptimeVal(Take(date_str, 8)) ELSE DATETIME_MIN

-----------------------------------------------------------------------------
(* plugins/email/utils.py and the email reconciler                        *)

\* tlds-alpha-by-domain.txt, lower-cased (the entries the model's addresses use)
VALID_TLDS == {<<"c","h">>, <<"c","o","m">>}

is_valid_email_tld(address) == Lower(AfterLastDot(address)) \in VALID_TLDS

\* source_date of length 8 is re-written YYYY-MM-DD; an empty one becomes 0000-00-00
insert_data_in_email_columns(email, source_date) == LET sd == IF source_date # <<>> /\ Len(source_date) = 8 THEN SubSeq(source_date, 1, 4) \o <<"-">> \o SubSeq(source_date, 5, 6) \o <<"-">> \o SubSeq(source_date, 7, 8) ELSE source_date IN [value |-> email, leak |-> NO_DATA_FOUND_TEXT, source_date |-> IF sd = <<>> THEN ZERO_DATE ELSE sd, scanned |-> TODAY]

generate_empty_email_entry == [value |-> NO_DATA_FOUND_TEXT, leak |-> NO_DATA_FOUND_TEXT, source_date |-> ZERO_DATE, scanned |-> TODAY]

_clean_email(raw) == Lower(Strip(RemoveAll(raw, <<"%","2","0">>)))

\* the loop of _deduplicate over entries[i..], latest being the dict built so far
RECURSIVE DeduplicateLoop(_, _, _)
DeduplicateLoop(entries, i, latest) == IF i > Len(entries) THEN latest ELSE LET entry == entries[i]
                                                                                 addr == _clean_email(entry.value)
                                                                                 src_date == _parse_date(entry.source_date)
                                                                             IN DeduplicateLoop(entries, i + 1, IF ~DictHas(latest, addr) \/ src_date > _parse_date(DictGet(latest, addr).source_date) THEN DictSet(latest, addr, entry) ELSE latest)

\* faulty variant of _deduplicate: the kept entries are returned in the order of the dict
_deduplicate_unsorted(entries) == DictValues(DeduplicateLoop(entries, 1, <<>>))

_deduplicate(entries) == LET Less(a, b) == StrLess(_clean_email(a.value), _clean_email(b.value)) IN SortedBy(DictValues(DeduplicateLoop(entries, 1, <<>>)), Less)

-----------------------------------------------------------------------------
(* Email source adapters.  An adapter result is [raised, rows]: raised is  *)
(* TRUE when the call ends with an exception instead of a list.            *)

SKIP_SUFFIXES == {<<".","j","p","g">>, <<".","j","p","e","g">>, <<".","p","n","g">>, <<".","g","i","f">>, <<".","s","v","g">>, <<".","w","e","b","p">>, <<".","w","o","f","f">>, <<".","w","o","f","f","2">>, <<".","t","t","f">>, <<".","e","o","t">>, <<".","o","t","f">>, <<".","p","d","f">>, <<".","z","i","p">>, <<".","r","a","r">>, <<".","7","z">>, <<".","m","p","4">>, <<".","m","p","3">>, <<".","a","v","i">>, <<".","m","o","v">>, <<".","c","s","s">>, <<".","j","s">>, <<".","i","c","o">>, <<".","e","x","e">>, <<".","d","m","g">>}

\* url.lower().endswith(SKIP_SUFFIXES): the adapter returns [] without a request
SkipsUrl(url) == \E suf \in SKIP_SUFFIXES : EndsWith(Lower(url), suf)

Returned(rows) == [raised |-> FALSE, rows |-> rows]

Raised == [raised |-> TRUE, rows |-> <<>>]

\* raw_matches: the regex hits of the text, in the iteration order of the set built from them
extract_emails_from_text(raw_matches) == Filter(raw_matches, is_valid_email_tld)

\* resp = [ok, matches]: the archived page's request succeeded, the address-shaped hits of its text
extract_emails_from_url(timestamp, url, resp) == IF SkipsUrl(url) THEN Returned(<<>>) ELSE IF ~resp.ok THEN Returned(<<>>) ELSE LET found == extract_emails_from_text(resp.matches) IN IF found = <<>> THEN Returned(<<generate_empty_email_entry>>) ELSE IF ~StrptimeOk(Take(timestamp, 8)) THEN Raised ELSE Returned([i \in 1..Len(found) |-> insert_data_in_email_columns(found[i], IsoFormat(Take(timestamp, 8)))])

\* resp = [ok, emails]: whois(domain) returned, the addresses of whois_data.emails
get_whois_emails(resp) == IF ~resp.ok THEN <<generate_empty_email_entry>> ELSE IF resp.emails = <<>> THEN <<generate_empty_email_entry>> ELSE [i \in 1..Len(resp.emails) |-> insert_data_in_email_columns(resp.emails[i], TODAY)]

\* s.split("T")[0]
RECURSIVE BeforeT(_)
BeforeT(s) == IF s = <<>> \/ s[1] = "T" THEN <<>> ELSE <<s[1]>> \o BeforeT(Tail(s))

RECURSIVE CrtshRows(_, _)
CrtshRows(records, i) == IF i > Len(records) THEN <<>> ELSE LET found == extract_emails_from_text(records[i].name_value)
                                                               crtsh_date == BeforeT(records[i].entry_timestamp)
                                                           IN [k \in 1..Len(found) |-> insert_data_in_email_columns(found[k], crtsh_date)] \o CrtshRows(records, i + 1)

\* resp = [ok, json_ok, records]: the request succeeded, its body parsed, the certificate records
\* faulty variant of get_crtsh_emails: an empty list instead of the placeholder row
get_crtsh_emails_or_nothing(resp) == IF ~resp.ok \/ ~resp.json_ok THEN <<>> ELSE IF CrtshRows(resp.records, 1) = <<>> THEN <<generate_empty_email_entry>> ELSE CrtshRows(resp.records, 1)

get_crtsh_emails(resp) == IF ~resp.ok \/ ~resp.json_ok THEN <<generate_empty_email_entry>> ELSE IF CrtshRows(resp.records, 1) = <<>> THEN <<generate_empty_email_entry>> ELSE CrtshRows(resp.records, 1)

-----------------------------------------------------------------------------
(* DeHashed enrichment                                                     *)

\* key_present: keys/dehashed_key.txt exists; resp: "error" (RequestException),
\* "password" (an entry with a non-blank password), "clean" (none)
\* faulty variant of is_leaked: a failed lookup leaves the "no data found" marker
is_leaked_unmarked(key_present, resp) == IF ~key_present \/ resp = "error" THEN NO_DATA_FOUND_TEXT ELSE IF resp = "password" THEN JA ELSE NEIN

is_leaked(key_present, resp) == IF ~key_present THEN NO_API_CREDITS_TEXT ELSE IF resp = "error" THEN NO_API_CREDITS_TEXT ELSE IF resp = "password" THEN JA ELSE NEIN

-----------------------------------------------------------------------------
(* plugins/phone: normalisation, adapters and reconciler                   *)

\* re.sub(r"[ \-\/]", "", raw)
RECURSIVE RemoveSeparators(_)
RemoveSeparators(s) == IF s = <<>> THEN <<>> ELSE (IF s[1] \in {" ", "-", "/"} THEN <<>> ELSE <<s[1]>>) \o RemoveSeparators(Tail(s))

\* faulty variant of the normalisation: the national form with a leading 0 is left as it is
normalize_international_only(raw) == LET digits == Strip(RemoveSeparators(raw)) IN IF StartsWith(digits, <<"0","0","4","1">>) THEN <<"+">> \o Drop(digits, 2) ELSE digits

normalize_phone_number(raw) == LET digits == Strip(RemoveSeparators(raw)) IN IF StartsWith(digits, <<"0","0","4","1">>) THEN <<"+">> \o Drop(digits, 2) ELSE IF StartsWith(digits, <<"0">>) THEN <<"+","4","1">> \o Drop(digits, 1) ELSE digits

is_valid_swiss_number(num) == StartsWith(num, <<"+","4","1">>) /\ ~StartsWith(num, <<"+","4","1","0","0">>)

\* a sequence without its repeated elements (the members of a Python set, in its iteration order)
RECURSIVE Distinct(_)
Distinct(s) == IF s = <<>> THEN <<>> ELSE LET r == Distinct(SubSeq(s, 1, Len(s) - 1)) IN IF s[Len(s)] \in Range(r) THEN r ELSE Append(r, s[Len(s)])

\* raw_hits: the PHONE_REGEX hits of the text
extract_phone_numbers(raw_hits) == LET norm == [i \in 1..Len(raw_hits) |-> normalize_phone_number(raw_hits[i])] IN Distinct(Filter(norm, is_valid_swiss_number))

insert_data_in_phone_columns(phone, src_date) == LET sd == IF src_date # <<>> /\ Len(src_date) = 8 THEN SubSeq(src_date, 1, 4) \o <<"-">> \o SubSeq(src_date, 5, 6) \o <<"-">> \o SubSeq(src_date, 7, 8) ELSE src_date IN [value |-> phone, leak |-> NO_DATA_FOUND_TEXT, source_date |-> IF sd = <<>> THEN ZERO_DATE ELSE sd, scanned |-> TODAY]

generate_fallback_phone_entry == [value |-> NO_DATA_FOUND_TEXT, leak |-> NO_DATA_FOUND_TEXT, source_date |-> ZERO_DATE, scanned |-> TODAY]

\* resp = [ok, hits]: the archived page's request succeeded, the PHONE_REGEX hits of its text.
\* strptime(timestamp[:8]) is evaluated on every fetched page, numbers found or not.
extract_phone_numbers_from_url(timestamp, url, resp) == IF SkipsUrl(url) THEN Returned(<<>>) ELSE IF ~resp.ok THEN Returned(<<generate_fallback_phone_entry>>) ELSE LET phones == extract_phone_numbers(resp.hits) IN IF ~StrptimeOk(Take(timestamp, 8)) THEN Raised ELSE IF phones = <<>> THEN Returned(<<generate_fallback_phone_entry>>) ELSE Returned([i \in 1..Len(phones) |-> insert_data_in_phone_columns(phones[i], IsoFormat(Take(timestamp, 8)))])

\* resp = [ok, hits]: whois(domain) returned, the PHONE_REGEX hits of str(whois_data)
get_whois_phone_numbers(resp) == IF ~resp.ok THEN <<generate_fallback_phone_entry>> ELSE LET numbers == extract_phone_numbers(resp.hits) IN IF numbers = <<>> THEN <<generate_fallback_phone_entry>> ELSE [i \in 1..Len(numbers) |-> insert_data_in_phone_columns(numbers[i], TODAY)]

RECURSIVE DeduplicatePhonesLoop(_, _, _)
DeduplicatePhonesLoop(entries, i, latest) == IF i > Len(entries) THEN latest ELSE LET entry == entries[i]
                                                                                       phone == entry.value
                                                                                       src_date == _parse_date(entry.source_date)
                                                                                   IN DeduplicatePhonesLoop(entries, i + 1, IF ~DictHas(latest, phone) \/ src_date > _parse_date(DictGet(latest, phone).source_date) THEN DictSet(latest, phone, entry) ELSE latest)

_deduplicate_phones(entries) == LET Less(a, b) == StrLess(a.value, b.value) IN SortedBy(DictValues(DeduplicatePhonesLoop(entries, 1, <<>>)), Less)

-----------------------------------------------------------------------------
(* plugins/endpoint/waybackmachine_lookup.py                               *)

EXCLUDE_SUFFIXES == {<<".","j","s">>, <<".","c","s","s">>, <<".","j","p","g">>, <<".","j","p","e","g">>, <<".","p","n","g">>, <<".","g","i","f">>, <<".","s","v","g">>, <<".","i","c","o">>}

\* the characters of s before the first one that is in stop
RECURSIVE TakeUntil(_, _)
TakeUntil(s, stop) == IF s = <<>> \/ s[1] \in stop THEN <<>> ELSE <<s[1]>> \o TakeUntil(Tail(s), stop)

\* s from its first character that is in stop (empty when there is none)
RECURSIVE DropUntil(_, _)
DropUntil(s, stop) == IF s = <<>> \/ s[1] \in stop THEN s ELSE DropUntil(Tail(s), stop)

\* the index of the first occurrence of p in s, 0 when there is none
IndexOf(s, p) == IF Contains(s, p) THEN CHOOSE i \in 1..Len(s) : SubSeq(s, i, i + Len(p) - 1) = p /\ \A j \in 1..(i - 1) : SubSeq(s, j, j + Len(p) - 1) # p ELSE 0

\* urlparse(u).path: what follows scheme://netloc, up to "?" or "#"; a text without "://" is all path
UrlPath(u) == LET sep == <<":","/","/">> IN IF Contains(u, sep) THEN TakeUntil(DropUntil(Drop(u, IndexOf(u, sep) + 2), {"/", "?", "#"}), {"?", "#"}) ELSE TakeUntil(u, {"?", "#"})

\* f"{ts[:4]}-{ts[4:6]}-{ts[6:8]}"
SnapshotIso(ts) == SubSeq(ts, 1, 4) \o <<"-">> \o SubSeq(ts, 5, 6) \o <<"-">> \o SubSeq(ts, 7, 8)

\* _fetch_snapshots, resp = [ok, json_ok, rows]: the CDX request succeeded, its body
\* parsed (resp.json() raises otherwise, outside the try), the rows after the header.
\* limit = 0 stands for None.
_fetch_snapshots(resp, limit) == IF ~resp.ok THEN Returned(<<>>) ELSE IF ~resp.json_ok THEN Raised ELSE LET Newer(a, b) == StrLess(b[1], a[1])
                                                                                                       data == SortedBy(resp.rows, Newer)
                                                                                                   IN Returned(IF limit # 0 THEN Take(data, limit) ELSE data)

EndpointRow(url, snapshot) == [url |-> url, snapshot |-> snapshot, scanned |-> TODAY]

RECURSIVE ExtractCdxLoop(_, _, _)
ExtractCdxLoop(rows, i, seen) == IF i > Len(rows) THEN seen ELSE LET ts == rows[i][1]
                                                                     full == rows[i][2]
                                                                     path_norm == RStripChar(UrlPath(full), "/")
                                                                     key == Lower(path_norm)
                                                                     snapshot_iso == SnapshotIso(ts)
                                                                 IN ExtractCdxLoop(rows, i + 1, IF path_norm = <<>> \/ (\E suf \in EXCLUDE_SUFFIXES : EndsWith(Lower(path_norm), suf)) \/ Contains(path_norm, <<"/","w","e","b","/">>) THEN seen ELSE IF ~DictHas(seen, key) \/ StrLess(DictGet(seen, key).snapshot, snapshot_iso) THEN DictSet(seen, key, EndpointRow(full, snapshot_iso)) ELSE seen)

\* faulty variant of _extract_from_cdx: a row whose path is empty is kept under the key ""
_extract_from_cdx_with_root(rows) == LET seen == ExtractCdxLoop(rows, 1, <<>>)
                                         roots == {i \in 1..Len(rows) : RStripChar(UrlPath(rows[i][2]), "/") = <<>>}
                                     IN IF roots = {} THEN seen ELSE LET i == CHOOSE i \in roots : \A j \in roots : i <= j IN DictSet(seen, <<>>, EndpointRow(rows[i][2], SnapshotIso(rows[i][1])))

_extract_from_cdx(rows) == ExtractCdxLoop(rows, 1, <<>>)

\* the Disallow/Allow matches of one robots.txt snapshot
RECURSIVE RobotsMatches(_, _, _, _, _)
RobotsMatches(domain, snapshot_iso, matches, k, entries) == IF k > Len(matches) THEN entries ELSE LET path == RStripChar(Strip(matches[k]), "/")
                                                                                                   key == Lower(path)
                                                                                               IN RobotsMatches(domain, snapshot_iso, matches, k + 1, IF path = <<>> \/ "*" \in Range(path) \/ "?" \in Range(path) \/ "$" \in Range(path) \/ DictHas(entries, key) THEN entries ELSE DictSet(entries, key, EndpointRow(<<"h","t","t","p","s",":","/","/">> \o domain \o path, snapshot_iso)))

\* rows[i] = <<ts, original, page>>, page = [ok, items]: the snapshot's request succeeded, the matches of its text
RECURSIVE ExtractRobotsLoop(_, _, _, _)
ExtractRobotsLoop(domain, rows, i, entries) == IF i > Len(rows) THEN entries ELSE ExtractRobotsLoop(domain, rows, i + 1, IF ~rows[i][3].ok THEN entries ELSE RobotsMatches(domain, SnapshotIso(rows[i][1]), rows[i][3].items, 1, entries))

_extract_from_robots(domain, rows) == ExtractRobotsLoop(domain, rows, 1, <<>>)

\* the <loc> texts of one sitemap.xml snapshot
RECURSIVE SitemapLocs(_, _, _, _)
SitemapLocs(snapshot_iso, locs, k, entries) == IF k > Len(locs) THEN entries ELSE LET url_text == Strip(locs[k])
                                                                                       path == RStripChar(UrlPath(url_text), "/")
                                                                                       key == Lower(path)
                                                                                   IN SitemapLocs(snapshot_iso, locs, k + 1, IF path = <<>> \/ DictHas(entries, key) THEN entries ELSE DictSet(entries, key, EndpointRow(url_text, snapshot_iso)))

\* page.ok is FALSE when the request fails or the XML does not parse
RECURSIVE ExtractSitemapLoop(_, _, _)
ExtractSitemapLoop(rows, i, entries) == IF i > Len(rows) THEN entries ELSE ExtractSitemapLoop(rows, i + 1, IF ~rows[i][3].ok THEN entries ELSE SitemapLocs(SnapshotIso(rows[i][1]), rows[i][3].items, 1, entries))

_extract_from_sitemap(rows) == ExtractSitemapLoop(rows, 1, <<>>)

\* faulty variant of the merge loop: a snapshot of the same date replaces the kept one
RECURSIVE MergeSourceOrEqual(_, _, _)
MergeSourceOrEqual(combined, source, i) == IF i > Len(source) THEN combined ELSE LET key == source[i][1]
                                                                                    val == source[i][2]
                                                                                IN MergeSourceOrEqual(IF ~DictHas(combined, key) \/ ~StrLess(val.snapshot, DictGet(combined, key).snapshot) THEN DictSet(combined, key, val) ELSE combined, source, i + 1)

\* for key, val in source.items(): a key is replaced only by a strictly newer snapshot
RECURSIVE MergeSource(_, _, _)
MergeSource(combined, source, i) == IF i > Len(source) THEN combined ELSE LET key == source[i][1]
                                                                             val == source[i][2]
                                                                         IN MergeSource(IF ~DictHas(combined, key) \/ StrLess(DictGet(combined, key).snapshot, val.snapshot) THEN DictSet(combined, key, val) ELSE combined, source, i + 1)

\* int(text) of a text of digits
RECURSIVE IntOf(_)
IntOf(s) == IF s = <<>> THEN 0 ELSE 10 * IntOf(SubSeq(s, 1, Len(s) - 1)) + DigitVal(s[Len(s)])

ROBOT_LIMIT == 5

SITEMAP_LIMIT == 5

\* the dict "combined" of combine_all after both sources are merged in
CombinedOf(domain, cdx_rows, robots_rows, sitemap_rows) == MergeSource(MergeSource(_extract_from_cdx(cdx_rows), _extract_from_robots(domain, robots_rows), 1), _extract_from_sitemap(sitemap_rows), 1)

\* faulty variant of the result list: the other entries are sorted oldest snapshot first
CombineOutputOldestFirst(domain, combined) == LET all_entries == DictValues(combined)
                                                  main_url == <<"h","t","t","p","s",":","/","/">> \o domain
                                                  IsMain(e) == RStripChar(e.url, "/") = main_url
                                                  NotMain(e) == ~IsMain(e)
                                                  mains == Filter(all_entries, IsMain)
                                                  others == Filter(all_entries, NotMain)
                                                  Before(a, b) == \/ IntOf(RemoveAll(a.snapshot, <<"-">>)) < IntOf(RemoveAll(b.snapshot, <<"-">>))
                                                                  \/ /\ IntOf(RemoveAll(a.snapshot, <<"-">>)) = IntOf(RemoveAll(b.snapshot, <<"-">>))
                                                                     /\ StrLess(Lower(a.url), Lower(b.url))
                                                  others_sorted == SortedBy(others, Before)
                                              IN IF all_entries = <<>> THEN <<EndpointRow(NO_DATA_FOUND_TEXT, ZERO_DATE)>> ELSE IF mains # <<>> THEN <<mains[1]>> \o others_sorted ELSE others_sorted

\* the list combine_all returns for the dict "combined"
CombineOutput(domain, combined) == LET all_entries == DictValues(combined)
                                       main_url == <<"h","t","t","p","s",":","/","/">> \o domain
                                       IsMain(e) == RStripChar(e.url, "/") = main_url
                                       NotMain(e) == ~IsMain(e)
                                       mains == Filter(all_entries, IsMain)
                                       others == Filter(all_entries, NotMain)
                                       Before(a, b) == \/ IntOf(RemoveAll(a.snapshot, <<"-">>)) > IntOf(RemoveAll(b.snapshot, <<"-">>))
                                                       \/ /\ IntOf(RemoveAll(a.snapshot, <<"-">>)) = IntOf(RemoveAll(b.snapshot, <<"-">>))
                                                          /\ StrLess(Lower(a.url), Lower(b.url))
                                       others_sorted == SortedBy(others, Before)
                                   IN IF all_entries = <<>> THEN <<EndpointRow(NO_DATA_FOUND_TEXT, ZERO_DATE)>> ELSE IF mains # <<>> THEN <<mains[1]>> \o others_sorted ELSE others_sorted

\* combine_all(domain, columns, robot_limit=5, sitemap_limit=5); cdx, robots and sitemap
\* are the outcomes of its three _fetch_snapshots requests.  Result: [raised, rows, combined].
combine_all(domain, cdx, robots, sitemap) == LET c == _fetch_snapshots(cdx, 0)
                                                 r == _fetch_snapshots(robots, ROBOT_LIMIT)
                                                 m == _fetch_snapshots(sitemap, SITEMAP_LIMIT)
                                             IN IF c.raised \/ r.raised \/ m.raised THEN [raised |-> TRUE, rows |-> <<>>, combined |-> <<>>] ELSE LET combined == CombinedOf(domain, c.rows, r.rows, m.rows) IN [raised |-> FALSE, rows |-> CombineOutput(domain, combined), combined |-> combined]

-----------------------------------------------------------------------------
(* database.py: one table per plugin, rows (domain, value)                 *)

D1 == <<"d",".","c","h">>

D2 == <<"e",".","c","h">>

Domains == {D1, D2}

Plugins == {"email", "phone", "endpoint"}

\* Plugin.table
TableOf(plugin) == IF plugin = "email" THEN "emails" ELSE IF plugin = "phone" THEN "phones" ELSE "endpoints"

EmptyDb == [t \in {"emails", "phones", "endpoints"} |-> [d \in Domains |-> <<>>]]

\* DELETE FROM table WHERE domain = %s; commit
\* faulty variant of _clear_table: the DELETE has no WHERE clause
ClearAllDomains(d, table, domain) == [d EXCEPT ![table] = [x \in Domains |-> <<>>]]

\* faulty variant of _clear_table: the DELETE removes nothing
KeepRows(d, table, domain) == d

_clear_table(d, table, domain) == [d EXCEPT ![table][domain] = <<>>]

\* INSERT INTO table (domain, value) VALUES (%s, %s); commit.  The value is
\* serialised with json.dumps and read back from the JSONB column as the same
\* mapping of column label to string.
insert_record(d, table, domain, value) == [d EXCEPT ![table][domain] = Append(@, value)]

\* SELECT value FROM endpoints WHERE domain = %s, sorted newest snapshot first
\* (list.sort(reverse=True) keeps the stored order of equal snapshots)
_get_endpoints(d, domain) == LET Newer(a, b) == StrLess(b.snapshot, a.snapshot) IN SortedBy(d["endpoints"][domain], Newer)

\* faulty variant of Plugin.get: the SELECT has no WHERE clause
get_any_domain(d, table, domain) == IF d[table][D1] \o d[table][D2] = <<>> THEN <<[info |-> NO_DATA_SCANNED_TEXT]>> ELSE d[table][D1] \o d[table][D2]

\* faulty variant of Plugin.get: without rows it answers like a scan that found nothing
get_no_data_found(d, table, domain) == IF d[table][domain] = <<>> THEN <<[info |-> NO_DATA_FOUND_TEXT]>> ELSE d[table][domain]

\* Plugin.get: SELECT value FROM table WHERE domain = %s; the info record when no row comes back
get(d, table, domain) == IF d[table][domain] = <<>> THEN <<[info |-> NO_DATA_SCANNED_TEXT]>> ELSE d[table][domain]

MAX_URLS == 50

\* snapshot.replace("-", "") + "000000"
WaybackTs(snapshot) == RemoveAll(snapshot, <<"-">>) \o <<"0","0","0","0","0","0">>

-----------------------------------------------------------------------------
(* Outcomes of the external calls                                          *)

\* archived page: the request fails; or succeeds with these address-shaped hits
EmailPages == {[ok |-> FALSE, matches |-> <<>>], [ok |-> TRUE, matches |-> <<>>], [ok |-> TRUE, matches |-> <<<<"%","2","0","x","@","a",".","c","h">>>>], [ok |-> TRUE, matches |-> <<<<"X","@","a",".","c","h">>, <<"x","@","a",".","z","z">>>>]}

\* whois(domain): raises; or returns with these whois_data.emails
WhoisEmailResps == {[ok |-> FALSE, emails |-> <<>>], [ok |-> TRUE, emails |-> <<>>], [ok |-> TRUE, emails |-> <<<<"x","@","a",".","c","h">>>>], [ok |-> TRUE, emails |-> <<<<"y","@","a",".","c","o","m">>, <<"x","@","a",".","z","z">>>>]}

\* crt.sh: the request fails; the body is no JSON; or these certificate records
CrtshResps == {[ok |-> FALSE, json_ok |-> FALSE, records |-> <<>>], [ok |-> TRUE, json_ok |-> FALSE, records |-> <<>>], [ok |-> TRUE, json_ok |-> TRUE, records |-> <<>>], [ok |-> TRUE, json_ok |-> TRUE, records |-> <<[name_value |-> <<<<"x","@","a",".","c","h">>>>, entry_timestamp |-> <<"2","0","2","3","-","0","6","-","0","1","T","1","0">>]>>]}

\* DeHashed: the key file is missing; the request fails; it answers
LeakResps == {[key_present |-> FALSE, resp |-> "error"], [key_present |-> TRUE, resp |-> "error"], [key_present |-> TRUE, resp |-> "password"], [key_present |-> TRUE, resp |-> "clean"]}

\* archived page for the phone scan: the request fails; or succeeds with these number-shaped hits
PhonePages == {[ok |-> FALSE, hits |-> <<>>], [ok |-> TRUE, hits |-> <<>>], [ok |-> TRUE, hits |-> <<<<"0","7","9"," ","1","2","3"," ","4","5"," ","6","7">>, <<"+","4","1"," ","7","9"," ","1","2","3"," ","4","5"," ","6","7">>>>], [ok |-> TRUE, hits |-> <<<<"0","4","4"," ","1","2","3"," ","4","5"," ","6","7">>, <<"0","0","4","1","7","9","1","2","3","4">>>>]}

\* whois(domain) for the phone scan: raises; or returns text with these number-shaped hits
WhoisPhoneResps == {[ok |-> FALSE, hits |-> <<>>], [ok |-> TRUE, hits |-> <<>>], [ok |-> TRUE, hits |-> <<<<"+","4","1","7","9","1","2","3","4","5","6","7">>>>], [ok |-> TRUE, hits |-> <<<<"0","0","4","1","0","0","1","2","3","4">>>>]}

\* the CDX listing of the domain: the request fails; the body is no JSON; or these rows <<timestamp, original>>
CdxResps == {[ok |-> FALSE, json_ok |-> FALSE, rows |-> <<>>], [ok |-> TRUE, json_ok |-> FALSE, rows |-> <<>>], [ok |-> TRUE, json_ok |-> TRUE, rows |-> <<>>], [ok |-> TRUE, json_ok |-> TRUE, rows |-> <<<<<<"2","0","2","3","0","1","0","1","0","0","0","0","0","0">>, <<"h","t","t","p","s",":","/","/","d",".","c","h","/","a">>>>, <<<<"2","0","2","3","0","6","0","1","0","0","0","0","0","0">>, <<"h","t","t","p","s",":","/","/","d",".","c","h","/","A","/">>>>, <<<<"2","0","2","3","0","6","0","1","0","0","0","0","0","0">>, <<"h","t","t","p","s",":","/","/","d",".","c","h","/","s",".","c","s","s">>>>, <<<<"2","0","2","3","0","6","0","1","0","0","0","0","0","0">>, <<"h","t","t","p","s",":","/","/","d",".","c","h","/">>>>>>]}

\* the CDX listing of /robots.txt, each row with the outcome of fetching that snapshot
RobotsResps == {[ok |-> FALSE, json_ok |-> FALSE, rows |-> <<>>], [ok |-> TRUE, json_ok |-> FALSE, rows |-> <<>>], [ok |-> TRUE, json_ok |-> TRUE, rows |-> <<<<<<"2","0","2","2","0","1","0","1","0","0","0","0","0","0">>, <<"h","t","t","p","s",":","/","/","d",".","c","h","/","r","o","b","o","t","s",".","t","x","t">>, [ok |-> FALSE, items |-> <<>>]>>, <<<<"2","0","2","3","0","6","0","1","0","0","0","0","0","0">>, <<"h","t","t","p","s",":","/","/","d",".","c","h","/","r","o","b","o","t","s",".","t","x","t">>, [ok |-> TRUE, items |-> <<<<"/","b",".","j","s">>, <<"/","*">>, <<"/">>>>]>>>>]}

\* the CDX listing of /sitemap.xml, each row with the outcome of fetching and parsing that snapshot
SitemapResps == {[ok |-> FALSE, json_ok |-> FALSE, rows |-> <<>>], [ok |-> TRUE, json_ok |-> FALSE, rows |-> <<>>], [ok |-> TRUE, json_ok |-> TRUE, rows |-> <<<<<<"2","0","2","4","0","1","0","1","0","0","0","0","0","0">>, <<"h","t","t","p","s",":","/","/","d",".","c","h","/","s","i","t","e","m","a","p",".","x","m","l">>, [ok |-> TRUE, items |-> <<<<"h","t","t","p","s",":","/","/","d",".","c","h","/","a">>, <<" ","h","t","t","p","s",":","/","/","d",".","c","h","/"," ">>>>]>>>>]}

\* what combine_all can return for a domain, over the outcomes of its three CDX requests
CrawlOutcomes == [d \in Domains |-> {combine_all(d, c, r, m) : c \in CdxResps, r \in RobotsResps, m \in SitemapResps}]

\* what the endpoints table of a domain can hold when an email or phone scan starts:
\* nothing (never scanned, or the crawl raised), or the rows of a finished endpoint scan
EndpointSnapshots == {<<>>} \cup {res.rows : res \in {o \in CrawlOutcomes[D1] : ~o.raised}}

-----------------------------------------------------------------------------
(* One scan invocation: scan[s] holds the locals of Plugin.scan            *)

MaxScans == 2

IdleScan(p, d) == [pc |-> "idle", plugin |-> p, domain |-> d, n |-> 0, todo |-> <<>>, all_entries |-> <<>>, ok_entries |-> <<>>, deduped |-> <<>>, valid |-> <<>>, survivors |-> 0, i |-> 0, result |-> <<>>, combined |-> <<>>, log |-> <<>>, lookups |-> <<>>, calls |-> <<>>, cleared |-> 0, got |-> <<>>]

\* faulty variant of the start of scan: it waits while another caller scans the same
\* domain with the same plugin
BeginExclusive(s) == /\ scan[s].pc \in {"idle", "done", "raised"}
                     /\ scan[s].n < MaxScans
                     /\ \A o \in DOMAIN scan \ {s} : (scan[o].plugin = scan[s].plugin /\ scan[o].domain = scan[s].domain) => scan[o].pc \in {"idle", "done", "raised"}
                     /\ db' = _clear_table(db, TableOf(scan[s].plugin), scan[s].domain)
                     /\ scan' = [scan EXCEPT ![s] = [IdleScan(@.plugin, @.domain) EXCEPT !.pc = IF scan[s].plugin = "endpoint" THEN "crawl" ELSE "endpoints", !.n = scan[s].n + 1, !.log = <<"clear">>, !.cleared = Len(db[TableOf(scan[s].plugin)][scan[s].domain])]]

\* faulty variant of the start of scan: the table is not cleared first
BeginWithoutClear(s) == /\ scan[s].pc \in {"idle", "done", "raised"}
                        /\ scan[s].n < MaxScans
                        /\ scan' = [scan EXCEPT ![s] = [IdleScan(@.plugin, @.domain) EXCEPT !.pc = IF scan[s].plugin = "endpoint" THEN "crawl" ELSE "endpoints", !.n = scan[s].n + 1]]
                        /\ UNCHANGED db

\* scan(domain) is called: its first statement is _clear_table(self.table, domain)
Begin(s) == /\ scan[s].pc \in {"idle", "done", "raised"}
            /\ scan[s].n < MaxScans
            /\ db' = _clear_table(db, TableOf(scan[s].plugin), scan[s].domain)
            /\ scan' = [scan EXCEPT ![s] = [IdleScan(@.plugin, @.domain) EXCEPT !.pc = IF scan[s].plugin = "endpoint" THEN "crawl" ELSE "endpoints", !.n = scan[s].n + 1, !.log = <<"clear">>, !.cleared = Len(db[TableOf(scan[s].plugin)][scan[s].domain])]]

\* self._get_endpoints(domain)[:MAX_URLS]
GetEndpoints(s) == /\ scan[s].pc = "endpoints"
                   /\ scan' = [scan EXCEPT ![s].pc = "wayback", ![s].todo = Take(_get_endpoints(db, scan[s].domain), MAX_URLS), ![s].log = Append(@, "get_endpoints")]
                   /\ UNCHANGED db

\* one pass of the loop over the endpoints: extract_emails_from_url, then time.sleep
EmailWayback(s) == /\ scan[s].pc = "wayback" /\ scan[s].plugin = "email"
                   /\ scan[s].todo # <<>>
                   /\ \E resp \in EmailPages :
                        LET ep == Head(scan[s].todo)
                            r == extract_emails_from_url(WaybackTs(ep.snapshot), ep.url, resp)
                            ev == IF SkipsUrl(ep.url) THEN "skip" ELSE IF resp.ok THEN "fetch" ELSE "fetch_failed"
                            call == [adapter |-> "wayback", failed |-> (ev = "fetch_failed"), raised |-> r.raised, rows |-> r.rows]
                        IN scan' = [scan EXCEPT ![s] = IF r.raised THEN [@ EXCEPT !.pc = "raised", !.log = Append(@, ev), !.calls = Append(@, call)] ELSE [@ EXCEPT !.todo = Tail(@), !.all_entries = @ \o r.rows, !.ok_entries = @ \o r.rows, !.log = @ \o <<ev, "sleep">>, !.calls = Append(@, call)]]
                   /\ UNCHANGED db

\* all_entries.extend(get_whois_emails(domain, self.columns))
EmailWhois(s) == /\ scan[s].pc = "wayback" /\ scan[s].plugin = "email"
                 /\ scan[s].todo = <<>>
                 /\ \E resp \in WhoisEmailResps :
                      scan' = [scan EXCEPT ![s].pc = "crtsh", ![s].all_entries = @ \o get_whois_emails(resp), ![s].ok_entries = IF resp.ok THEN @ \o get_whois_emails(resp) ELSE @, ![s].log = Append(@, IF resp.ok THEN "fetch" ELSE "fetch_failed"), ![s].calls = Append(@, [adapter |-> "whois", failed |-> ~resp.ok, raised |-> FALSE, rows |-> get_whois_emails(resp)])]
                 /\ UNCHANGED db

\* all_entries.extend(get_crtsh_emails(domain, self.columns))
EmailCrtsh(s) == /\ scan[s].pc = "crtsh"
                 /\ \E resp \in CrtshResps :
                      scan' = [scan EXCEPT ![s].pc = "dedup", ![s].all_entries = @ \o get_crtsh_emails(resp), ![s].ok_entries = IF resp.ok THEN @ \o get_crtsh_emails(resp) ELSE @, ![s].log = Append(@, IF resp.ok THEN "fetch" ELSE "fetch_failed"), ![s].calls = Append(@, [adapter |-> "crtsh", failed |-> ~resp.ok, raised |-> FALSE, rows |-> get_crtsh_emails(resp)])]
                 /\ UNCHANGED db

\* deduped = self._deduplicate(all_entries, self.columns, self._clean_email)
EmailDedup(s) == /\ scan[s].pc = "dedup" /\ scan[s].plugin = "email"
                 /\ scan' = [scan EXCEPT ![s].pc = "filter", ![s].deduped = _deduplicate(scan[s].all_entries), ![s].log = Append(@, "dedup")]
                 /\ UNCHANGED db

\* the placeholder filter of Plugin.scan
IsPlaceholderValue(v) == v = <<>> \/ Contains(v, NO_DATA_FOUND_TEXT)

\* faulty variant of the placeholder filter: every entry is kept
KeepAll(e) == TRUE

KeepEntry(e) == ~IsPlaceholderValue(e.value)

FilterPlaceholders(s) == /\ scan[s].pc = "filter"
                         /\ scan' = [scan EXCEPT ![s].pc = "enrich", ![s].valid = Filter(scan[s].deduped, KeepEntry), ![s].i = 1, ![s].log = Append(@, "filter")]
                         /\ UNCHANGED db

\* faulty variant of the enrichment loop: only the first entry of valid is looked up
EnrichFirstOnly(s) == /\ scan[s].pc = "enrich"
                      /\ scan[s].i <= Len(scan[s].valid)
                      /\ \E o \in LeakResps :
                           LET i == scan[s].i
                           IN scan' = [scan EXCEPT ![s].valid[i].leak = is_leaked(o.key_present, o.resp), ![s].i = Len(scan[s].valid) + 1, ![s].lookups = Append(@, [attribute |-> scan[s].valid[i].value, outcome |-> o]), ![s].log = Append(@, "lookup")]
                      /\ UNCHANGED db

\* entry[columns[1]] = is_leaked(entry[columns[0]]) for the next entry of valid
Enrich(s) == /\ scan[s].pc = "enrich"
             /\ scan[s].i <= Len(scan[s].valid)
             /\ \E o \in LeakResps :
                  LET i == scan[s].i
                  IN scan' = [scan EXCEPT ![s].valid[i].leak = is_leaked(o.key_present, o.resp), ![s].i = i + 1, ![s].lookups = Append(@, [attribute |-> scan[s].valid[i].value, outcome |-> o]), ![s].log = Append(@, "lookup")]
             /\ UNCHANGED db

\* if not valid_entries: valid_entries = [generate_empty_email_entry(columns)]
\* (phone: [generate_fallback_phone_entry(self.columns)])
Fallback(s) == /\ scan[s].pc = "enrich"
               /\ scan[s].i > Len(scan[s].valid)
               /\ scan' = [scan EXCEPT ![s].pc = "persist", ![s].survivors = Len(scan[s].valid), ![s].valid = IF scan[s].valid # <<>> THEN @ ELSE IF scan[s].plugin = "phone" THEN <<generate_fallback_phone_entry>> ELSE <<generate_empty_email_entry>>, ![s].i = 1, ![s].log = Append(@, "fallback")]
               /\ UNCHANGED db

\* insert_record(self.table, domain, entry) for the next entry of valid
Insert(s) == /\ scan[s].pc = "persist"
             /\ scan[s].i <= Len(scan[s].valid)
             /\ db' = insert_record(db, TableOf(scan[s].plugin), scan[s].domain, scan[s].valid[scan[s].i])
             /\ scan' = [scan EXCEPT ![s].i = @ + 1, ![s].log = Append(@, "insert")]

\* return valid_entries
Return(s) == /\ scan[s].pc = "persist"
             /\ scan[s].i > Len(scan[s].valid)
             /\ scan' = [scan EXCEPT ![s].pc = "done", ![s].result = scan[s].valid, ![s].log = Append(@, "return")]
             /\ UNCHANGED db

\* one pass of the phone scan's loop: extract_phone_numbers_from_url, then time.sleep
PhoneWayback(s) == /\ scan[s].pc = "wayback" /\ scan[s].plugin = "phone"
                   /\ scan[s].todo # <<>>
                   /\ \E resp \in PhonePages :
                        LET ep == Head(scan[s].todo)
                            r == extract_phone_numbers_from_url(WaybackTs(ep.snapshot), ep.url, resp)
                            ev == IF SkipsUrl(ep.url) THEN "skip" ELSE IF resp.ok THEN "fetch" ELSE "fetch_failed"
                            call == [adapter |-> "wayback", failed |-> (ev = "fetch_failed"), raised |-> r.raised, rows |-> r.rows]
                        IN scan' = [scan EXCEPT ![s] = IF r.raised THEN [@ EXCEPT !.pc = "raised", !.log = Append(@, ev), !.calls = Append(@, call)] ELSE [@ EXCEPT !.todo = Tail(@), !.all_entries = @ \o r.rows, !.ok_entries = IF resp.ok THEN @ \o r.rows ELSE @, !.log = @ \o <<ev, "sleep">>, !.calls = Append(@, call)]]
                   /\ UNCHANGED db

\* all_entries += get_whois_phone_numbers(domain, self.columns)
PhoneWhois(s) == /\ scan[s].pc = "wayback" /\ scan[s].plugin = "phone"
                 /\ scan[s].todo = <<>>
                 /\ \E resp \in WhoisPhoneResps :
                      scan' = [scan EXCEPT ![s].pc = "dedup", ![s].all_entries = @ \o get_whois_phone_numbers(resp), ![s].ok_entries = IF resp.ok THEN @ \o get_whois_phone_numbers(resp) ELSE @, ![s].log = Append(@, IF resp.ok THEN "fetch" ELSE "fetch_failed"), ![s].calls = Append(@, [adapter |-> "whois", failed |-> ~resp.ok, raised |-> FALSE, rows |-> get_whois_phone_numbers(resp)])]
                 /\ UNCHANGED db

\* deduped = _deduplicate_phones(all_entries, self.columns)
PhoneDedup(s) == /\ scan[s].pc = "dedup" /\ scan[s].plugin = "phone"
                 /\ scan' = [scan EXCEPT ![s].pc = "filter", ![s].deduped = _deduplicate_phones(scan[s].all_entries), ![s].log = Append(@, "dedup")]
                 /\ UNCHANGED db

\* get(domain) is called between two scans of the caller; got holds what it returned
Get(s) == /\ scan[s].pc \in {"idle", "done", "raised"}
          /\ scan' = [scan EXCEPT ![s].got = get(db, TableOf(scan[s].plugin), scan[s].domain)]
          /\ UNCHANGED db

\* f"Fehler beim Wayback-Scan: {exc}"
SCAN_ERROR == <<"F","e","h","l","e","r">>

\* faulty variant of the crawl step: the exception is swallowed and the sentinel row returned
EndpointCrawlSwallowed(s) == /\ scan[s].pc = "crawl"
                             /\ \E res \in CrawlOutcomes[scan[s].domain] :
                                  scan' = [scan EXCEPT ![s] = IF res.raised THEN [@ EXCEPT !.pc = "done", !.result = <<EndpointRow(NO_DATA_FOUND_TEXT, ZERO_DATE)>>, !.log = @ \o <<"crawl_raised", "return">>] ELSE [@ EXCEPT !.pc = "persist", !.valid = res.rows, !.combined = res.combined, !.survivors = Len(res.combined), !.i = 1, !.log = Append(@, "crawl")]]
                             /\ UNCHANGED db

\* endpoints = combine_all(...) inside try; on an exception return [{"error": ...}]
EndpointCrawl(s) == /\ scan[s].pc = "crawl"
                    /\ \E res \in CrawlOutcomes[scan[s].domain] :
                         scan' = [scan EXCEPT ![s] = IF res.raised THEN [@ EXCEPT !.pc = "done", !.result = <<[error |-> SCAN_ERROR]>>, !.log = @ \o <<"crawl_raised", "return">>] ELSE [@ EXCEPT !.pc = "persist", !.valid = res.rows, !.combined = res.combined, !.survivors = Len(res.combined), !.i = 1, !.log = Append(@, "crawl")]]
                    /\ UNCHANGED db

-----------------------------------------------------------------------------
(* Specification: one caller scans one domain with one plugin, again and   *)
(* again.  For the email and phone plugins the endpoints table holds what  *)
(* an earlier endpoint scan left there.                                    *)

Procs == {1}

Init == \E p \in Plugins :
          /\ scan = [s \in Procs |-> IdleScan(p, D1)]
          /\ \E snap \in (IF p = "endpoint" THEN {<<>>} ELSE EndpointSnapshots) : db = [EmptyDb EXCEPT !["endpoints"][D1] = snap]

Next == \/ \E s \in DOMAIN scan : Begin(s)
        \/ \E s \in DOMAIN scan : GetEndpoints(s)
        \/ \E s \in DOMAIN scan : EmailWayback(s)
        \/ \E s \in DOMAIN scan : EmailWhois(s)
        \/ \E s \in DOMAIN scan : EmailCrtsh(s)
        \/ \E s \in DOMAIN scan : EmailDedup(s)
        \/ \E s \in DOMAIN scan : PhoneWayback(s)
        \/ \E s \in DOMAIN scan : PhoneWhois(s)
        \/ \E s \in DOMAIN scan : PhoneDedup(s)
        \/ \E s \in DOMAIN scan : FilterPlaceholders(s)
        \/ \E s \in DOMAIN scan : Enrich(s)
        \/ \E s \in DOMAIN scan : Fallback(s)
        \/ \E s \in DOMAIN scan : Insert(s)
        \/ \E s \in DOMAIN scan : Return(s)
        \/ \E s \in DOMAIN scan : EndpointCrawl(s)
        \/ \E s \in DOMAIN scan : Get(s)

Spec == Init /\ [][Next]_vars

-----------------------------------------------------------------------------
(* Specification of two callers at once: each request is served on its own *)
(* thread, and nothing coordinates the scans.  The callers crawl the       *)
(* endpoints of the same domain, of two domains, or one crawls a domain    *)
(* while the other scans the phone numbers of another domain.              *)

ConcurrentCallers == {<<[plugin |-> "endpoint", domain |-> D1], [plugin |-> "endpoint", domain |-> D1]>>,
                      <<[plugin |-> "endpoint", domain |-> D1], [plugin |-> "endpoint", domain |-> D2]>>,
                      <<[plugin |-> "endpoint", domain |-> D1], [plugin |-> "phone", domain |-> D2]>>}

\* the rows an endpoint scan of domain d stored when the crawl found one endpoint
OneEndpoint(d) == CHOOSE snap \in {res.rows : res \in CrawlOutcomes[d]} : Len(snap) = 1 /\ snap[1].snapshot # ZERO_DATE

InitConcurrent == \E callers \in ConcurrentCallers :
                    /\ scan = [s \in {1, 2} |-> IdleScan(callers[s].plugin, callers[s].domain)]
                    /\ db = [EmptyDb EXCEPT !["endpoints"] = [d \in Domains |-> IF \E s \in {1, 2} : callers[s].plugin = "endpoint" /\ callers[s].domain = d THEN <<>> ELSE OneEndpoint(d)]]

\* each caller makes one scan request
NextConcurrent == \/ \E s \in DOMAIN scan : scan[s].pc = "idle" /\ Begin(s)
                  \/ \E s \in DOMAIN scan : GetEndpoints(s)
                  \/ \E s \in DOMAIN scan : PhoneWayback(s)
                  \/ \E s \in DOMAIN scan : PhoneWhois(s)
                  \/ \E s \in DOMAIN scan : PhoneDedup(s)
                  \/ \E s \in DOMAIN scan : FilterPlaceholders(s)
                  \/ \E s \in DOMAIN scan : Enrich(s)
                  \/ \E s \in DOMAIN scan : Fallback(s)
                  \/ \E s \in DOMAIN scan : Insert(s)
                  \/ \E s \in DOMAIN scan : Return(s)
                  \/ \E s \in DOMAIN scan : EndpointCrawl(s)
                  \/ \E s \in DOMAIN scan : Get(s)

SpecConcurrent == InitConcurrent /\ [][NextConcurrent]_vars

-----------------------------------------------------------------------------
(* Specification of the email reconciler alone: two candidates, each an    *)
(* address and a source date as an adapter hands them to                   *)
(* insert_data_in_email_columns, are made rows and then deduplicated.      *)

CandidateAddresses == {<<"x","@","e","x","a","m","p","l","e",".","c","o","m">>, <<"X","@","E","x","a","m","p","l","e",".","c","o","m">>, <<"y","@","e","x","a","m","p","l","e",".","c","o","m">>}

\* dates as YYYYMMDD, as YYYY-MM-DD, and the text crt.sh hands over for a record without entry_timestamp
CandidateDates == {NO_DATA_FOUND_TEXT, <<"2","0","2","3","0","1","0","1">>, <<"2","0","2","3","0","6","0","1">>, <<"2","0","2","3","-","0","1","-","0","1">>, <<"2","0","2","3","-","0","6","-","0","1">>}

Candidates == [email : CandidateAddresses, source_date : CandidateDates]

InitReconcile == /\ db = EmptyDb
                 /\ \E a \in Candidates, b \in Candidates : scan = [s \in Procs |-> [pc |-> "candidates", cands |-> <<a, b>>, all_entries |-> <<>>, deduped |-> <<>>]]

\* an adapter builds the row of its next candidate
BuildRow(s) == /\ scan[s].pc = "candidates"
               /\ Len(scan[s].all_entries) < Len(scan[s].cands)
               /\ LET c == scan[s].cands[Len(scan[s].all_entries) + 1] IN scan' = [scan EXCEPT ![s].all_entries = Append(@, insert_data_in_email_columns(c.email, c.source_date))]
               /\ UNCHANGED db

\* deduped = self._deduplicate(all_entries, self.columns, self._clean_email)
Reconcile(s) == /\ scan[s].pc = "candidates"
                /\ Len(scan[s].all_entries) = Len(scan[s].cands)
                /\ scan' = [scan EXCEPT ![s].pc = "reconciled", ![s].deduped = _deduplicate(scan[s].all_entries)]
                /\ UNCHANGED db

NextReconcile == \/ \E s \in DOMAIN scan : BuildRow(s)
                 \/ \E s \in DOMAIN scan : Reconcile(s)

SpecReconcile == InitReconcile /\ [][NextReconcile]_vars

-----------------------------------------------------------------------------
(* Specification of combine_all alone: the three CDX listings answer, and  *)
(* combine_all extracts the three maps, merges them and builds its list.   *)

MaxListed == 2

\* the timestamps of the archived snapshots
ListedTs == {<<"2","0","2","3","0","1","0","1","0","0","0","0","0","0">>, <<"2","0","2","3","0","6","0","1","0","0","0","0","0","0">>}

\* the URLs of the CDX listing of the domain
ListedUrls == {<<"h","t","t","p","s",":","/","/","d",".","c","h","/","A">>, <<"h","t","t","p","s",":","/","/","d",".","c","h","/","A","/">>, <<"h","t","t","p","s",":","/","/","d",".","c","h","/">>}

\* the CDX listings of the domain: at most MaxListed rows <<timestamp, original>>
CdxListings == UNION {[1..n -> ListedTs \X ListedUrls] : n \in 0..MaxListed}

\* the CDX listings of /robots.txt: no snapshot, one whose text holds these matches, or
\* two of which the newer cannot be fetched
RobotsListings == {<<>>, <<<<<<"2","0","2","3","0","1","0","1","0","0","0","0","0","0">>, <<"h","t","t","p","s",":","/","/","d",".","c","h","/","r","o","b","o","t","s",".","t","x","t">>, [ok |-> TRUE, items |-> <<<<"/","a">>>>]>>, <<<<"2","0","2","3","0","6","0","1","0","0","0","0","0","0">>, <<"h","t","t","p","s",":","/","/","d",".","c","h","/","r","o","b","o","t","s",".","t","x","t">>, [ok |-> FALSE, items |-> <<>>]>>>>} \cup {<<<<ts, <<"h","t","t","p","s",":","/","/","d",".","c","h","/","r","o","b","o","t","s",".","t","x","t">>, [ok |-> TRUE, items |-> items]>>>> : ts \in ListedTs, items \in {<<<<"/","a">>>>, <<<<"/","a">>, <<"/","b">>>>, <<<<"/">>>>}}

\* the CDX listings of /sitemap.xml: no snapshot, or one whose document holds these <loc> texts
SitemapListings == {<<>>} \cup {<<<<ts, <<"h","t","t","p","s",":","/","/","d",".","c","h","/","s","i","t","e","m","a","p",".","x","m","l">>, [ok |-> TRUE, items |-> items]>>>> : ts \in ListedTs, items \in {<<<<"h","t","t","p","s",":","/","/","d",".","c","h","/","a","/">>>>, <<<<"h","t","t","p","s",":","/","/","d",".","c","h","/","c">>>>, <<<<"h","t","t","p","s",":","/","/","d",".","c","h","/">>, <<"h","t","t","p","s",":","/","/","d",".","c","h","/","a","/">>>>}}

Listed(rows) == [ok |-> TRUE, json_ok |-> TRUE, rows |-> rows]

InitCombine == /\ db = EmptyDb
               /\ \E c \in CdxListings, r \in RobotsListings, m \in SitemapListings :
                    scan = [s \in Procs |-> [pc |-> "cdx", domain |-> D1, cdx |-> Listed(c), robots |-> Listed(r), sitemap |-> Listed(m), cdx_entries |-> <<>>, robots_entries |-> <<>>, sitemap_entries |-> <<>>, combined |-> <<>>, merged |-> 0, result |-> <<>>, events |-> <<>>]]

\* the requests and delays of a loop over fetched snapshots: requests.get, and
\* time.sleep(SLEEP) at the end of a pass that was not left by "continue"
RECURSIVE SnapshotRequests(_, _)
SnapshotRequests(rows, i) == IF i > Len(rows) THEN <<>> ELSE <<"request">> \o (IF rows[i][3].ok THEN <<"sleep">> ELSE <<>>) \o SnapshotRequests(rows, i + 1)

\* combined = _extract_from_cdx(domain, ...)
ExtractCdx(s) == /\ scan[s].pc = "cdx"
                 /\ LET seen == _extract_from_cdx(_fetch_snapshots(scan[s].cdx, 0).rows) IN scan' = [scan EXCEPT ![s].pc = "robots", ![s].cdx_entries = seen, ![s].combined = seen, ![s].events = Append(@, "request")]
                 /\ UNCHANGED db

\* robots = _extract_from_robots(domain, ..., robot_limit)
ExtractRobots(s) == /\ scan[s].pc = "robots"
                    /\ scan' = [scan EXCEPT ![s].pc = "sitemap", ![s].robots_entries = _extract_from_robots(scan[s].domain, _fetch_snapshots(scan[s].robots, ROBOT_LIMIT).rows), ![s].events = @ \o <<"request">> \o SnapshotRequests(_fetch_snapshots(scan[s].robots, ROBOT_LIMIT).rows, 1)]
                    /\ UNCHANGED db

\* sitemap = _extract_from_sitemap(domain, ..., sitemap_limit)
ExtractSitemap(s) == /\ scan[s].pc = "sitemap"
                     /\ scan' = [scan EXCEPT ![s].pc = "merge", ![s].sitemap_entries = _extract_from_sitemap(_fetch_snapshots(scan[s].sitemap, SITEMAP_LIMIT).rows), ![s].events = @ \o <<"request">> \o SnapshotRequests(_fetch_snapshots(scan[s].sitemap, SITEMAP_LIMIT).rows, 1)]
                     /\ UNCHANGED db

\* one round of "for source in (robots, sitemap)"
Merge(s) == /\ scan[s].pc = "merge"
            /\ LET source == IF scan[s].merged = 0 THEN scan[s].robots_entries ELSE scan[s].sitemap_entries
               IN scan' = [scan EXCEPT ![s].combined = MergeSource(@, source, 1), ![s].merged = @ + 1, ![s].pc = IF scan[s].merged = 0 THEN "merge" ELSE "output"]
            /\ UNCHANGED db

\* the sentinel row, or the main entry followed by the sorted others
Output(s) == /\ scan[s].pc = "output"
             /\ scan' = [scan EXCEPT ![s].pc = "returned", ![s].result = CombineOutput(scan[s].domain, scan[s].combined)]
             /\ UNCHANGED db

NextCombine == \/ \E s \in DOMAIN scan : ExtractCdx(s)
               \/ \E s \in DOMAIN scan : ExtractRobots(s)
               \/ \E s \in DOMAIN scan : ExtractSitemap(s)
               \/ \E s \in DOMAIN scan : Merge(s)
               \/ \E s \in DOMAIN scan : Output(s)

SpecCombine == InitCombine /\ [][NextCombine]_vars

-----------------------------------------------------------------------------
(* Specification of _clean_email alone: a raw address is cleaned, and the  *)
(* cleaned address is cleaned once more.                                   *)

MaxRaw == 6

RawChars == {"%", "2", "0", " ", "A"}

RawAddresses == UNION {[1..n -> RawChars] : n \in 0..MaxRaw}

InitClean == /\ db = EmptyDb
             /\ \E raw \in RawAddresses : scan = [s \in Procs |-> [pc |-> "raw", raw |-> raw, once |-> <<>>, twice |-> <<>>]]

\* addr = clean_fn(addr_raw)
Clean(s) == /\ scan[s].pc = "raw"
            /\ scan' = [scan EXCEPT ![s].pc = "cleaned", ![s].once = _clean_email(scan[s].raw)]
            /\ UNCHANGED db

\* clean_fn applied to the cleaned address
CleanAgain(s) == /\ scan[s].pc = "cleaned"
                 /\ scan' = [scan EXCEPT ![s].pc = "recleaned", ![s].twice = _clean_email(scan[s].once)]
                 /\ UNCHANGED db

NextClean == \/ \E s \in DOMAIN scan : Clean(s)
             \/ \E s \in DOMAIN scan : CleanAgain(s)

SpecClean == InitClean /\ [][NextClean]_vars

-----------------------------------------------------------------------------
(* Specification of the phone normalisation alone: a raw hit is normalised *)
(* and the normalised number is validated, as extract_phone_numbers does.  *)

MaxNumber == 5

NumberChars == {"0", "1", "4", "+", " ", "-", "/"}

\* the two numbers of the docstring of normalize_phone_number
DocNumbers == {<<"0","7","9"," ","1","2","3"," ","4","5"," ","6","7">>, <<"0","0","4","1"," ","4","4"," ","1","2","3"," ","4","5"," ","6","7">>}

RawNumbers == DocNumbers \cup UNION {[1..n -> NumberChars] : n \in 0..MaxNumber}

InitNormalize == /\ db = EmptyDb
                 /\ \E raw \in RawNumbers : scan = [s \in Procs |-> [pc |-> "raw", raw |-> raw, norm |-> <<>>, valid |-> FALSE]]

\* norm = normalize_phone_number(raw)
Normalize(s) == /\ scan[s].pc = "raw"
                /\ scan' = [scan EXCEPT ![s].pc = "normalized", ![s].norm = normalize_phone_number(scan[s].raw)]
                /\ UNCHANGED db

\* is_valid_swiss_number(norm)
Validate(s) == /\ scan[s].pc = "normalized"
               /\ scan' = [scan EXCEPT ![s].pc = "validated", ![s].valid = is_valid_swiss_number(scan[s].norm)]
               /\ UNCHANGED db

NextNormalize == \/ \E s \in DOMAIN scan : Normalize(s)
                 \/ \E s \in DOMAIN scan : Validate(s)

SpecNormalize == InitNormalize /\ [][NextNormalize]_vars

-----------------------------------------------------------------------------
(* plugins/plugin_manager.py and its specification: a route looks up the   *)
(* plugin of the attribute name of its request.                            *)

\* the keys of the literal _plugin_registry, in their order; the plugin instance of a
\* key is its position here
REGISTERED == <<<<"A">>, <<"A","A","A","A">>, <<"M","X">>, <<"N","S">>, <<"T","X","T">>, <<"S","O","A">>, <<"P","T","R">>, <<"S","U","B","D","O","M","A","I","N">>, <<"C","E","R","T","I","F","I","C","A","T","E">>, <<"E","N","D","P","O","I","N","T">>, <<"E","M","A","I","L">>, <<"P","H","O","N","E">>, <<"S","E","R","V","I","C","E">>>>

\* the registry after the loop that adds key.lower() for every key
_plugin_registry == [i \in 1..Len(REGISTERED) |-> <<REGISTERED[i], i>>] \o [i \in 1..Len(REGISTERED) |-> <<Lower(REGISTERED[i]), i>>]

\* None
NONE == 0

\* _plugin_registry.get(attribute)
get_plugin(attribute) == IF DictHas(_plugin_registry, attribute) THEN DictGet(_plugin_registry, attribute) ELSE NONE

\* the spellings of a name in upper and lower case letters
RECURSIVE CaseVariants(_)
CaseVariants(name) == IF name = <<>> THEN {<<>>} ELSE {<<c>> \o v : c \in {name[1], LowerChar(name[1])}, v \in CaseVariants(Tail(name))}

\* the attribute names of the requests: the registered names in every casing, and names of no plugin
Attributes == UNION {CaseVariants(REGISTERED[i]) : i \in 1..Len(REGISTERED)} \cup CaseVariants(<<"C","N","A","M","E">>) \cup {<<>>}

InitLookup == /\ db = EmptyDb
              /\ \E a \in Attributes : scan = [s \in Procs |-> [pc |-> "request", attribute |-> a, plugin |-> NONE]]

\* plugin = get_plugin(attribute); if plugin is None: raise HTTPException(404)
Lookup(s) == /\ scan[s].pc = "request"
             /\ scan' = [scan EXCEPT ![s].plugin = get_plugin(scan[s].attribute), ![s].pc = IF get_plugin(scan[s].attribute) = NONE THEN "not_found" ELSE "found"]
             /\ UNCHANGED db

NextLookup == \E s \in DOMAIN scan : Lookup(s)

SpecLookup == InitLookup /\ [][NextLookup]_vars

-----------------------------------------------------------------------------
(* Specification of extract_phone_numbers alone: PHONE_REGEX finds the     *)
(* hits of a text, the hits are normalised and the valid ones returned.    *)

\* the three alternatives of PHONE_REGEX, in their order: literal characters, \d, \s?
PHONE_REGEX == <<<<<<"lit", "+">>, <<"lit", "4">>, <<"lit", "1">>, <<"space?">>, <<"digit">>, <<"digit">>, <<"space?">>, <<"digit">>, <<"digit">>, <<"digit">>, <<"space?">>, <<"digit">>, <<"digit">>, <<"space?">>, <<"digit">>, <<"digit">>>>,
                 <<<<"lit", "0">>, <<"digit">>, <<"digit">>, <<"space?">>, <<"digit">>, <<"digit">>, <<"digit">>, <<"space?">>, <<"digit">>, <<"digit">>, <<"space?">>, <<"digit">>, <<"digit">>>>,
                 <<<<"lit", "0">>, <<"lit", "0">>, <<"lit", "4">>, <<"lit", "1">>, <<"digit">>, <<"digit">>, <<"digit">>, <<"digit">>, <<"digit">>, <<"digit">>, <<"digit">>, <<"digit">>, <<"digit">>>>>>

\* the position behind the match of the tokens alt[k..] at text[pos..], 0 when they do
\* not match (\s? is followed by \d in every alternative, so taking the blank when
\* there is one is the only way to match)
RECURSIVE MatchFrom(_, _, _, _)
MatchFrom(text, pos, alt, k) == IF k > Len(alt) THEN pos
                                ELSE IF alt[k][1] = "space?" THEN MatchFrom(text, IF pos <= Len(text) /\ text[pos] = " " THEN pos + 1 ELSE pos, alt, k + 1)
                                ELSE IF pos > Len(text) THEN 0
                                ELSE IF alt[k][1] = "digit" THEN (IF IsDigit(text[pos]) THEN MatchFrom(text, pos + 1, alt, k + 1) ELSE 0)
                                ELSE IF text[pos] = alt[k][2] THEN MatchFrom(text, pos + 1, alt, k + 1) ELSE 0

\* the match of the pattern at a position: that of its first alternative that matches
MatchAt(text, pos) == IF MatchFrom(text, pos, PHONE_REGEX[1], 1) # 0 THEN MatchFrom(text, pos, PHONE_REGEX[1], 1)
                      ELSE IF MatchFrom(text, pos, PHONE_REGEX[2], 1) # 0 THEN MatchFrom(text, pos, PHONE_REGEX[2], 1)
                      ELSE MatchFrom(text, pos, PHONE_REGEX[3], 1)

\* PHONE_REGEX.findall(text): the leftmost matches, none overlapping another
RECURSIVE FindAll(_, _)
FindAll(text, pos) == IF pos > Len(text) THEN <<>>
                      ELSE IF MatchAt(text, pos) # 0 THEN <<SubSeq(text, pos, MatchAt(text, pos) - 1)>> \o FindAll(text, MatchAt(text, pos))
                      ELSE FindAll(text, pos + 1)

\* one number written in the forms the pattern is meant for
WrittenForms == {<<"+","4","1"," ","7","9"," ","1","2","3"," ","4","5"," ","6","7">>, <<"+","4","1","7","9","1","2","3","4","5","6","7">>, <<"0","7","9"," ","1","2","3"," ","4","5"," ","6","7">>, <<"0","7","9","1","2","3","4","5","6","7">>, <<"0","0","4","1","7","9","1","2","3","4","5","6","7">>, <<"0","0","4","1"," ","7","9"," ","1","2","3"," ","4","5"," ","6","7">>}

\* what stands before and behind the number in the text
Paddings == {<<>>, <<" ">>, <<"x">>, <<"8">>, <<"0">>}

Texts == {before \o number \o behind : before \in Paddings, number \in WrittenForms, behind \in Paddings}

InitExtract == /\ db = EmptyDb
               /\ \E text \in Texts : scan = [s \in Procs |-> [pc |-> "text", text |-> text, raw_hits |-> <<>>, numbers |-> <<>>]]

\* raw_hits = set(PHONE_REGEX.findall(text))
FindHits(s) == /\ scan[s].pc = "text"
               /\ scan' = [scan EXCEPT ![s].pc = "hits", ![s].raw_hits = Distinct(FindAll(scan[s].text, 1))]
               /\ UNCHANGED db

\* the set of the valid normalised hits
ExtractNumbers(s) == /\ scan[s].pc = "hits"
                     /\ scan' = [scan EXCEPT ![s].pc = "extracted", ![s].numbers = extract_phone_numbers(scan[s].raw_hits)]
                     /\ UNCHANGED db

NextExtract == \/ \E s \in DOMAIN scan : FindHits(s)
               \/ \E s \in DOMAIN scan : ExtractNumbers(s)

SpecExtract == InitExtract /\ [][NextExtract]_vars

-----------------------------------------------------------------------------
(* Claims                                                                  *)

\* the calendar day a source date YYYYMMDD or YYYY-MM-DD denotes, 0 when it denotes none
SourceDay(source_date) == LET compact == RemoveAll(source_date, <<"-">>) IN IF StrptimeOk(compact) THEN StrptimeVal(compact) ELSE 0

\* C1: of two candidates with the same canonical key and valid provenance dates
\* d1 > d2, the one record that survives _deduplicate is the row carrying d1,
\* whichever of the two comes first.
C1_NewestSurvives == \A s \in DOMAIN scan : scan[s].pc = "reconciled" =>
                        \A i \in {1, 2} : LET newer == scan[s].cands[i]
                                              older == scan[s].cands[3 - i]
                                          IN (_clean_email(newer.email) = _clean_email(older.email) /\ SourceDay(older.source_date) > 0 /\ SourceDay(newer.source_date) > SourceDay(older.source_date))
                                               => scan[s].deduped = <<scan[s].all_entries[i]>>

EmailOrPhone(s) == scan[s].plugin \in {"email", "phone"}

\* the result is the error record of the endpoint scan
IsErrorResult(res) == Len(res) = 1 /\ "error" \in DOMAIN res[1]

\* the scan has returned its records
Completed(s) == scan[s].pc = "done" /\ ~IsErrorResult(scan[s].result)

\* the identifier field of a record: the URL of an endpoint, the address or number otherwise
Identifier(r) == IF "url" \in DOMAIN r THEN r.url ELSE r.value

IsPlaceholder(r) == IsPlaceholderValue(Identifier(r))

StoredRows(s) == db[TableOf(scan[s].plugin)][scan[s].domain]

\* C2: when scans of one plugin for one domain run one after another and each
\* completes, the rows stored for the domain after a scan are exactly the records
\* that scan returned; no row of an earlier scan remains.
C2_RowsAreLastResult == \A s \in DOMAIN scan : Completed(s) => StoredRows(s) = scan[s].result

\* a second scan found two rows of the first, deleted them, and returned and stored one record
C2_Witness == \E s \in DOMAIN scan : Completed(s) /\ scan[s].n = 2 /\ scan[s].cleared = 2 /\ Len(scan[s].result) = 1 /\ Len(StoredRows(s)) = 1

\* the step of the scan an event of the log belongs to
Stage(ev) == CASE ev = "clear" -> 1
               [] ev \in {"get_endpoints", "skip", "fetch", "fetch_failed", "sleep"} -> 2
               [] ev = "dedup" -> 3
               [] ev = "filter" -> 4
               [] ev = "lookup" -> 5
               [] ev = "fallback" -> 6
               [] ev = "insert" -> 7
               [] ev = "return" -> 8
               [] OTHER -> 0

\* C3 as stated: the deletion of the domain's rows comes only after the fetches,
\* the reconciliation, the filter and the enrichment lookups of the scan.
C3_ClearAfterEnrich == \A s \in DOMAIN scan : EmailOrPhone(s) =>
                          \A i \in 1..Len(scan[s].log) : scan[s].log[i] = "clear" =>
                             \A j \in 1..Len(scan[s].log) : Stage(scan[s].log[j]) \in 2..5 => j < i

\* C3: an email or phone scan deletes the domain's rows as its first step and never
\* again; then it fetches all sources, reconciles, filters placeholders, enriches and
\* inserts, in this order, so every fetch and every lookup lies between the deletion
\* and the first insert.
C3_ClearFirstThenPipeline == \A s \in DOMAIN scan : (EmailOrPhone(s) /\ scan[s].pc # "idle") =>
                                LET log == scan[s].log
                                IN /\ Len(log) >= 1 /\ log[1] = "clear"
                                   /\ \A i \in 2..Len(log) : log[i] # "clear"
                                   /\ \A i \in 1..Len(log) : \A j \in i..Len(log) : Stage(log[i]) > 0 /\ Stage(log[i]) <= Stage(log[j])
                                   /\ \A i \in 1..Len(log) : \A j \in i..Len(log) : (Stage(log[i]) \in {3, 4, 6} /\ i # j) => Stage(log[i]) < Stage(log[j])
                                   /\ scan[s].pc = "done" => {"dedup", "filter", "fallback", "insert", "return"} \subseteq Range(log)

\* a finished scan that fetched a page, looked a record up and inserted it after the deletion
C3_Witness == \E s \in DOMAIN scan : /\ EmailOrPhone(s) /\ scan[s].pc = "done"
                                     /\ scan[s].log[1] = "clear"
                                     /\ {"fetch", "fetch_failed", "lookup", "insert"} \subseteq Range(scan[s].log)

\* C4: a scan of the email, phone or endpoint plugin never ends with an exception
\* and never returns an empty list, whatever the external calls answer and whatever
\* rows the stored endpoint snapshot holds.
C4_ScanAlwaysReturns == \A s \in DOMAIN scan : scan[s].pc # "raised" /\ (scan[s].pc = "done" => scan[s].result # <<>>)

\* reconciliation and placeholder filter applied to a list of candidates
ReconcileOf(plugin, entries) == Filter(IF plugin = "phone" THEN _deduplicate_phones(entries) ELSE _deduplicate(entries), KeepEntry)

\* the records of a list without their enrichment field
WithoutLeak(rows) == [i \in 1..Len(rows) |-> [value |-> rows[i].value, source_date |-> rows[i].source_date, scanned |-> rows[i].scanned]]

\* what a scan returns for the candidates of the adapters that succeeded
ExpectedResult(s) == IF ReconcileOf(scan[s].plugin, scan[s].ok_entries) = <<>> THEN <<generate_empty_email_entry>> ELSE ReconcileOf(scan[s].plugin, scan[s].ok_entries)

\* the result part of C5: the returned records are the reconciliation of the
\* candidates of the adapters whose request succeeded
ResultIsOfSucceededAdapters == \A s \in DOMAIN scan : (EmailOrPhone(s) /\ scan[s].pc = "done") => WithoutLeak(scan[s].result) = WithoutLeak(ExpectedResult(s))

\* C5: no source failure is fatal: an email or phone scan always reaches the persist
\* step and returns, and what it returns is the reconciliation of the candidates of
\* the adapters that succeeded.
C5_NoSourceFailureIsFatal == (\A s \in DOMAIN scan : EmailOrPhone(s) => scan[s].pc # "raised") /\ ResultIsOfSucceededAdapters

\* C6 as stated: an adapter whose request fails returns the empty list.
C6_FailureReturnsEmptyList == \A s \in DOMAIN scan : \A i \in 1..Len(scan[s].calls) : scan[s].calls[i].failed => (~scan[s].calls[i].raised /\ scan[s].calls[i].rows = <<>>)

\* C6: an adapter whose request fails returns a list and raises nothing: the email
\* archived-page extraction returns the empty list; the email WHOIS lookup, the
\* crt.sh lookup, the phone archived-page extraction and the phone WHOIS lookup
\* return a list of one placeholder row.
C6_FailureReturnsNoFinding == \A s \in DOMAIN scan : \A i \in 1..Len(scan[s].calls) :
                                 LET call == scan[s].calls[i]
                                 IN call.failed => /\ ~call.raised
                                                   /\ call.rows = IF scan[s].plugin = "email" /\ call.adapter = "wayback" THEN <<>> ELSE IF scan[s].plugin = "phone" THEN <<generate_fallback_phone_entry>> ELSE <<generate_empty_email_entry>>

\* an email scan in which the archived-page request, WHOIS and crt.sh all failed
C6_Witness == \E s \in DOMAIN scan : /\ scan[s].plugin = "email"
                                     /\ \E i \in 1..Len(scan[s].calls) : scan[s].calls[i].adapter = "wayback" /\ scan[s].calls[i].failed /\ scan[s].calls[i].rows = <<>>
                                     /\ \E i \in 1..Len(scan[s].calls) : scan[s].calls[i].adapter = "whois" /\ scan[s].calls[i].failed /\ scan[s].calls[i].rows = <<generate_empty_email_entry>>
                                     /\ \E i \in 1..Len(scan[s].calls) : scan[s].calls[i].adapter = "crtsh" /\ scan[s].calls[i].failed /\ scan[s].calls[i].rows = <<generate_empty_email_entry>>

\* the canonical key of an email or phone record
CanonicalKey(plugin, r) == IF plugin = "email" THEN _clean_email(r.value) ELSE r.value

\* no two records of rows have the same canonical key; the records of an endpoint
\* scan are the values of the dict "combined", one for each of its path keys
OneRecordPerKey(plugin, rows, combined) == IF plugin = "endpoint"
                                             THEN /\ \A i \in 1..Len(combined) : \A j \in 1..Len(combined) : i # j => combined[i][1] # combined[j][1]
                                                  /\ combined # <<>> => Len(rows) = Len(combined)
                                                  /\ combined # <<>> => \A i \in 1..Len(rows) : \E k \in 1..Len(combined) : combined[k][2] = rows[i] /\ combined[k][1] = Lower(combined[k][1]) /\ ~EndsWith(combined[k][1], <<"/">>)
                                                  /\ \A i \in 1..Len(rows) : \A j \in 1..Len(rows) : i # j => rows[i] # rows[j]
                                             ELSE \A i \in 1..Len(rows) : \A j \in 1..Len(rows) : i # j => CanonicalKey(plugin, rows[i]) # CanonicalKey(plugin, rows[j])

\* C7: the list a scan returns, and the rows it stores, hold at most one record per
\* canonical key: the cleaned address, the number, the path key of the endpoint.
C7_OneRecordPerKey == \A s \in DOMAIN scan : /\ scan[s].pc = "persist" => OneRecordPerKey(scan[s].plugin, scan[s].valid, scan[s].combined)
                                             /\ Completed(s) => (OneRecordPerKey(scan[s].plugin, scan[s].result, scan[s].combined) /\ OneRecordPerKey(scan[s].plugin, StoredRows(s), scan[s].combined))

\* an email scan whose adapters produced two candidates that differ as texts and
\* have the same cleaned address, and that returned one record for them
C7_Witness == \E s \in DOMAIN scan : /\ Completed(s) /\ scan[s].plugin = "email"
                                     /\ \E i \in 1..Len(scan[s].all_entries) : \E j \in 1..Len(scan[s].all_entries) :
                                          /\ scan[s].all_entries[i].value # scan[s].all_entries[j].value
                                          /\ ~IsPlaceholder(scan[s].all_entries[i])
                                          /\ _clean_email(scan[s].all_entries[i].value) = _clean_email(scan[s].all_entries[j].value)
                                     /\ Len(scan[s].result) = 1 /\ ~IsPlaceholder(scan[s].result[1])

IsPlaceholderResult(res) == Len(res) = 1 /\ IsPlaceholder(res[1])

\* C8: the result of a scan holds no placeholder record, or it is one placeholder
\* record alone; it is the placeholder exactly when no candidate survived
\* reconciliation and filtering.
C8_PlaceholderOnlyAlone == \A s \in DOMAIN scan : Completed(s) =>
                              /\ IsPlaceholderResult(scan[s].result) \/ \A i \in 1..Len(scan[s].result) : ~IsPlaceholder(scan[s].result[i])
                              /\ IsPlaceholderResult(scan[s].result) <=> scan[s].survivors = 0

\* an email scan whose three adapters were all called and returned no address, and
\* whose result is the one placeholder record
C8_Witness == \E s \in DOMAIN scan : /\ Completed(s) /\ scan[s].plugin = "email"
                                     /\ Len(scan[s].calls) >= 3
                                     /\ \A i \in 1..Len(scan[s].calls) : \A k \in 1..Len(scan[s].calls[i].rows) : IsPlaceholder(scan[s].calls[i].rows[k])
                                     /\ scan[s].result = <<generate_empty_email_entry>>

\* C9: every record the email scan returns, the placeholder apart, has an address
\* whose label after the last "." is a valid TLD, whichever adapter produced it.
C9_ValidTldOnly == \A s \in DOMAIN scan : (Completed(s) /\ scan[s].plugin = "email") =>
                      \A i \in 1..Len(scan[s].result) : ~IsPlaceholder(scan[s].result[i]) => is_valid_email_tld(scan[s].result[i].value)

\* the lookup did not answer: the key file is missing or the request failed
LookupFailed(o) == ~o.key_present \/ o.resp = "error"

\* C10: a failed enrichment lookup puts the "no query possible" sentinel on its own
\* record only: the scan goes on, every record is returned and stored, and every
\* other record carries the answer of its own lookup.
C10_FailedLookupIsLocal == \A s \in DOMAIN scan : EmailOrPhone(s) =>
                              /\ scan[s].pc = "raised" => scan[s].lookups = <<>>
                              /\ (Completed(s) /\ scan[s].survivors > 0) =>
                                   /\ Len(scan[s].result) = Len(scan[s].lookups)
                                   /\ StoredRows(s) = scan[s].result
                                   /\ \A i \in 1..Len(scan[s].result) :
                                        /\ scan[s].result[i].value = scan[s].lookups[i].attribute
                                        /\ scan[s].result[i].leak = IF LookupFailed(scan[s].lookups[i].outcome) THEN NO_API_CREDITS_TEXT ELSE IF scan[s].lookups[i].outcome.resp = "password" THEN JA ELSE NEIN

\* a finished scan of two records: the lookup of the first failed, the second was answered
C10_Witness == \E s \in DOMAIN scan : /\ EmailOrPhone(s) /\ Completed(s) /\ Len(scan[s].result) = 2
                                      /\ LookupFailed(scan[s].lookups[1].outcome) /\ scan[s].result[1].leak = NO_API_CREDITS_TEXT
                                      /\ ~LookupFailed(scan[s].lookups[2].outcome) /\ scan[s].result[2].leak = JA
                                      /\ StoredRows(s) = scan[s].result

\* the crawl step of the scan raised
CrawlRaised(s) == "crawl_raised" \in Range(scan[s].log)

\* C11: when the crawl step of an endpoint scan raises, the scan returns one record
\* with an error field and inserts no row for the domain; when it does not raise,
\* no record the scan returns has an error field.
C11_ErrorRecordIffCrawlRaised == \A s \in DOMAIN scan : scan[s].plugin = "endpoint" =>
                                    /\ CrawlRaised(s) => /\ scan[s].pc = "done"
                                                         /\ Len(scan[s].result) = 1 /\ DOMAIN scan[s].result[1] = {"error"}
                                                         /\ StoredRows(s) = <<>>
                                                         /\ "insert" \notin Range(scan[s].log)
                                    /\ (scan[s].pc = "done" /\ ~CrawlRaised(s)) => \A i \in 1..Len(scan[s].result) : "error" \notin DOMAIN scan[s].result[i]

\* a second endpoint scan whose crawl raised after the rows of the first were deleted
C11_Witness == \E s \in DOMAIN scan : /\ scan[s].plugin = "endpoint" /\ CrawlRaised(s)
                                      /\ scan[s].cleared > 0
                                      /\ IsErrorResult(scan[s].result)
                                      /\ StoredRows(s) = <<>>

\* C12: get(domain) returns the one info record "not yet scanned" exactly when the
\* plugin's table holds no row of the domain; otherwise it returns the rows stored
\* for the domain and no others; and it leaves the store as it is.
C12_GetReturnsStoredRows == [][\A s \in DOMAIN scan : (scan'[s].got # scan[s].got /\ scan'[s].got # <<>>) =>
                                 /\ db' = db
                                 /\ (scan'[s].got = <<[info |-> NO_DATA_SCANNED_TEXT]>>) <=> (StoredRows(s) = <<>>)
                                 /\ StoredRows(s) # <<>> => scan'[s].got = StoredRows(s)]_vars

\* get returned the rows of its domain while the table held other rows for another domain
C12_Witness == \E s \in DOMAIN scan : /\ StoredRows(s) # <<>> /\ scan[s].got = StoredRows(s)
                                      /\ \E d \in Domains \ {scan[s].domain} : /\ db[TableOf(scan[s].plugin)][d] # <<>>
                                                                              /\ \A i \in 1..Len(db[TableOf(scan[s].plugin)][d]) : db[TableOf(scan[s].plugin)][d][i] \notin Range(scan[s].got)

\* no other caller scans the domain of s with the plugin of s
ScansAlone(s) == \A o \in DOMAIN scan \ {s} : scan[o].plugin # scan[s].plugin \/ scan[o].domain # scan[s].domain

\* the completed scan s returned and stored what a scan running by itself returns for
\* the answers its own external calls got
IsolatedResult(s) == /\ StoredRows(s) = scan[s].result
                     /\ scan[s].plugin = "endpoint" => \E o \in CrawlOutcomes[scan[s].domain] : ~o.raised /\ o.rows = scan[s].result
                     /\ scan[s].plugin # "endpoint" => WithoutLeak(scan[s].result) = WithoutLeak(ExpectedResult(s))

\* C13: scans are isolated by domain: a step changes the rows of a (table, domain)
\* only if a scan of that domain with the plugin of that table takes it, so the
\* clear and the inserts of a scan of d1 leave the rows of every other domain as
\* they are; and a scan that no other caller runs for the same domain returns and
\* stores the records of a scan running by itself, whatever scans of other domains
\* run at the same time.
C13_IsolatedByDomain == /\ [][\A t \in DOMAIN db : \A d \in Domains : db'[t][d] # db[t][d] => \E s \in DOMAIN scan : scan'[s] # scan[s] /\ scan[s].domain = d /\ TableOf(scan[s].plugin) = t]_vars
                        /\ [](\A s \in DOMAIN scan : (Completed(s) /\ ScansAlone(s)) => IsolatedResult(s))

\* a scan of one domain has returned and its rows are stored while the scan of another
\* domain, which began before that return, is in the middle of its inserts
C13_Witness == \E s \in DOMAIN scan : \E o \in DOMAIN scan :
                  /\ scan[s].domain # scan[o].domain
                  /\ Completed(s) /\ scan[s].result # <<>> /\ StoredRows(s) = scan[s].result
                  /\ scan[o].pc = "persist" /\ scan[o].i > 1 /\ scan[o].i <= Len(scan[o].valid)
                  /\ StoredRows(o) # <<>>

\* C14: two scans of the same plugin and domain are not mutually excluded: whatever
\* step the other scan has reached, a caller's scan can begin with its clear and a
\* scan in its persist step can insert its next row.
C14_NotMutuallyExcluded == \A s \in DOMAIN scan : \A o \in DOMAIN scan \ {s} :
                              (scan[o].plugin = scan[s].plugin /\ scan[o].domain = scan[s].domain) =>
                                 /\ scan[s].pc = "idle" => ENABLED Begin(s)
                                 /\ (scan[s].pc = "persist" /\ scan[s].i <= Len(scan[s].valid)) => ENABLED Insert(s)

\* both scans of the domain have returned; the stored rows hold one record twice, a row
\* of each scan, and miss a record that one scan returned, deleted by the clear of the
\* other: the snapshot is the result of neither scan
C14_Witness == \E s \in DOMAIN scan : \E o \in DOMAIN scan \ {s} :
                  /\ scan[o].plugin = scan[s].plugin /\ scan[o].domain = scan[s].domain
                  /\ Completed(s) /\ Completed(o)
                  /\ \E i \in 1..Len(StoredRows(s)) : \E j \in 1..Len(StoredRows(s)) : i # j /\ StoredRows(s)[i] = StoredRows(s)[j] /\ StoredRows(s)[i] \in Range(scan[s].result) \cap Range(scan[o].result)
                  /\ \E r \in Range(scan[s].result) : r \notin Range(StoredRows(s))
                  /\ StoredRows(s) # scan[s].result /\ StoredRows(s) # scan[o].result

\* the day a snapshot date YYYY-MM-DD denotes, as a number
SnapshotDay(e) == IntOf(RemoveAll(e.snapshot, <<"-">>))

\* the maps of the three sources in the order CDX, robots, sitemap
SourceMaps(s) == <<scan[s].cdx_entries, scan[s].robots_entries, scan[s].sitemap_entries>>

\* the sources that hold the key
Holders(s, key) == {j \in 1..3 : DictHas(SourceMaps(s)[j], key)}

\* the earliest source among those holding the key with its newest snapshot date
FirstNewest(s, key) == CHOOSE j \in Holders(s, key) : \A k \in Holders(s, key) :
                          \/ SnapshotDay(DictGet(SourceMaps(s)[k], key)) < SnapshotDay(DictGet(SourceMaps(s)[j], key))
                          \/ SnapshotDay(DictGet(SourceMaps(s)[k], key)) = SnapshotDay(DictGet(SourceMaps(s)[j], key)) /\ j <= k

\* C15: after the merge every key of the CDX, robots or sitemap map is in the merged
\* map, with the newest snapshot date the three maps hold for it, and with the entry of
\* the earliest source (CDX, robots, sitemap) among those that hold it with that date.
C15_MergeKeepsNewestEarliest == \A s \in DOMAIN scan : scan[s].pc \in {"output", "returned"} =>
                                   /\ \A j \in 1..3 : \A key \in Range(DictKeys(SourceMaps(s)[j])) :
                                        /\ DictHas(scan[s].combined, key)
                                        /\ \A k \in Holders(s, key) : SnapshotDay(DictGet(SourceMaps(s)[k], key)) <= SnapshotDay(DictGet(scan[s].combined, key))
                                        /\ DictGet(scan[s].combined, key) = DictGet(SourceMaps(s)[FirstNewest(s, key)], key)
                                   /\ \A key \in Range(DictKeys(scan[s].combined)) : Holders(s, key) # {}

\* a key held by all three sources, older in CDX, with one date in robots and sitemap:
\* the merged entry is the robots one
C15_Witness == \E s \in DOMAIN scan : /\ scan[s].pc = "output"
                                      /\ \E key \in Range(DictKeys(scan[s].combined)) :
                                           /\ Holders(s, key) = {1, 2, 3}
                                           /\ SnapshotDay(DictGet(scan[s].cdx_entries, key)) < SnapshotDay(DictGet(scan[s].robots_entries, key))
                                           /\ SnapshotDay(DictGet(scan[s].robots_entries, key)) = SnapshotDay(DictGet(scan[s].sitemap_entries, key))
                                           /\ DictGet(scan[s].robots_entries, key) # DictGet(scan[s].sitemap_entries, key)
                                           /\ DictGet(scan[s].combined, key) = DictGet(scan[s].robots_entries, key)

\* https://<domain>, the main URL of combine_all
MainUrl(s) == <<"h","t","t","p","s",":","/","/">> \o scan[s].domain

\* the URL is the main URL, a trailing slash apart
IsMainUrl(s, url) == RStripChar(url, "/") = MainUrl(s)

\* the CDX listing or a sitemap names the main URL of the domain
MainUrlListed(s) == \/ \E i \in 1..Len(scan[s].cdx.rows) : IsMainUrl(s, scan[s].cdx.rows[i][2])
                    \/ \E i \in 1..Len(scan[s].sitemap.rows) : \E k \in 1..Len(scan[s].sitemap.rows[i][3].items) : IsMainUrl(s, Strip(scan[s].sitemap.rows[i][3].items[k]))

C16_NoMainEntry == \A s \in DOMAIN scan : \A i \in 1..Len(scan[s].combined) : ~IsMainUrl(s, scan[s].combined[i][2].url)

\* C17: cleaning a cleaned address changes nothing, whatever the raw address was.
C17_CleanIdempotent == \A s \in DOMAIN scan : scan[s].pc = "recleaned" => scan[s].twice = scan[s].once

\* the characters of a text that are no space, hyphen or slash, in their order
RECURSIVE WithoutSeparators(_)
WithoutSeparators(raw) == IF raw = <<>> THEN <<>> ELSE IF raw[1] = " " \/ raw[1] = "-" \/ raw[1] = "/" THEN WithoutSeparators(Tail(raw)) ELSE <<raw[1]>> \o WithoutSeparators(Tail(raw))

\* the canonical form the rule of the claim gives a raw number
CanonicalNumber(raw) == LET bare == WithoutSeparators(raw)
                        IN IF Len(bare) >= 4 /\ SubSeq(bare, 1, 4) = <<"0","0","4","1">> THEN <<"+","4","1">> \o SubSeq(bare, 5, Len(bare))
                           ELSE IF Len(bare) >= 1 /\ bare[1] = "0" THEN <<"+","4","1">> \o SubSeq(bare, 2, Len(bare))
                           ELSE bare

\* C18: the normalised number is the raw one without its spaces, hyphens and slashes,
\* with a prefix 0041 replaced by +41, otherwise a single leading 0 replaced by +41,
\* otherwise as it is; '079 123 45 67' gives '+41791234567' and '0041 44 123 45 67'
\* gives '+41441234567'; a number is valid exactly when it starts with +41 and does
\* not start with +4100.
C18_NormalizeAndValidate == \A s \in DOMAIN scan :
                               /\ scan[s].pc \in {"normalized", "validated"} =>
                                    /\ scan[s].norm = CanonicalNumber(scan[s].raw)
                                    /\ scan[s].raw = <<"0","7","9"," ","1","2","3"," ","4","5"," ","6","7">> => scan[s].norm = <<"+","4","1","7","9","1","2","3","4","5","6","7">>
                                    /\ scan[s].raw = <<"0","0","4","1"," ","4","4"," ","1","2","3"," ","4","5"," ","6","7">> => scan[s].norm = <<"+","4","1","4","4","1","2","3","4","5","6","7">>
                               /\ scan[s].pc = "validated" =>
                                    (scan[s].valid <=> (/\ Len(scan[s].norm) >= 3 /\ SubSeq(scan[s].norm, 1, 3) = <<"+","4","1">>
                                                        /\ ~(Len(scan[s].norm) >= 5 /\ SubSeq(scan[s].norm, 1, 5) = <<"+","4","1","0","0">>)))

\* a national number written with separators and a leading 0 was normalised and found
\* valid
C18_Witness == \E s \in DOMAIN scan : /\ scan[s].pc = "validated"
                                      /\ scan[s].raw = <<"0","7","9"," ","1","2","3"," ","4","5"," ","6","7">>
                                      /\ scan[s].norm = <<"+","4","1","7","9","1","2","3","4","5","6","7">>
                                      /\ scan[s].valid

\* the registered names the attribute matches when case is ignored
MatchingNames(attribute) == {i \in 1..Len(REGISTERED) : Lower(REGISTERED[i]) = Lower(attribute)}

\* C19: an attribute that is a registered name in any casing gets the plugin instance
\* of that name, and no plugin is returned only for an attribute that matches no
\* registered name in any casing.
C19_LookupIgnoresCase == \A s \in DOMAIN scan : scan[s].pc # "request" =>
                            /\ \A i \in MatchingNames(scan[s].attribute) : scan[s].plugin = i
                            /\ scan[s].plugin = NONE => MatchingNames(scan[s].attribute) = {}

\* what the registry does: the name as registered and the name all in lower case
\* are found, every other spelling is not
C19_UpperOrLowerOnly == \A s \in DOMAIN scan : scan[s].pc # "request" =>
                           \A i \in 1..Len(REGISTERED) : scan[s].plugin = i <=> scan[s].attribute \in {REGISTERED[i], Lower(REGISTERED[i])}

\* the candidate carries a calendar date
HasValidDate(c) == SourceDay(c.source_date) > 0

\* C20: of two candidates of one canonical key, an undated second one does not replace
\* a dated first one, a dated second one replaces an undated first one, and with equal
\* dates (or both undated) the first one is kept.
C20_UndatedIsOldest == \A s \in DOMAIN scan : scan[s].pc = "reconciled" =>
                          LET first == scan[s].cands[1]
                              second == scan[s].cands[2]
                          IN _clean_email(first.email) = _clean_email(second.email) =>
                               /\ (HasValidDate(first) /\ ~HasValidDate(second)) => scan[s].deduped = <<scan[s].all_entries[1]>>
                               /\ (~HasValidDate(first) /\ HasValidDate(second)) => scan[s].deduped = <<scan[s].all_entries[2]>>
                               /\ SourceDay(first.source_date) = SourceDay(second.source_date) => scan[s].deduped = <<scan[s].all_entries[1]>>

\* what the reconciler does with the rows it is given: of two candidates of one key the
\* first is kept, whatever their dates
C20_FirstIsKept == \A s \in DOMAIN scan : (scan[s].pc = "reconciled" /\ _clean_email(scan[s].cands[1].email) = _clean_email(scan[s].cands[2].email)) => scan[s].deduped = <<scan[s].all_entries[1]>>

\* the positions of an event in the log of a scan
PositionsOf(s, ev) == {k \in 1..Len(scan[s].log) : scan[s].log[k] = ev}

\* C21: in an email or phone scan the lookups made so far are those of the first
\* records of the filtered list, one each and in its order; none is made before the
\* filter has run and none for a placeholder; when the scan has returned, every record
\* that survived the filter was looked up once, and a result that is the single
\* placeholder was returned without a lookup and carries the "no data found" marker as
\* its leak.
C21_OneLookupPerSurvivor == \A s \in DOMAIN scan : EmailOrPhone(s) =>
                               /\ Len(scan[s].lookups) = Cardinality(PositionsOf(s, "lookup"))
                               /\ \A k \in PositionsOf(s, "lookup") : \E f \in PositionsOf(s, "filter") : f < k
                               /\ \A k \in 1..Len(scan[s].lookups) : ~IsPlaceholderValue(scan[s].lookups[k].attribute)
                               /\ scan[s].pc = "enrich" => /\ Len(scan[s].lookups) = scan[s].i - 1
                                                           /\ \A k \in 1..Len(scan[s].lookups) : scan[s].lookups[k].attribute = scan[s].valid[k].value
                               /\ scan[s].pc \in {"persist", "done"} =>
                                    /\ Len(scan[s].lookups) = scan[s].survivors
                                    /\ scan[s].survivors = Len(Filter(scan[s].deduped, KeepEntry))
                                    /\ \A k \in 1..Len(scan[s].lookups) : scan[s].lookups[k].attribute = scan[s].valid[k].value
                               /\ (scan[s].pc = "done" /\ IsPlaceholderResult(scan[s].result)) =>
                                    /\ scan[s].lookups = <<>>
                                    /\ scan[s].result[1].leak = NO_DATA_FOUND_TEXT

\* a scan returned two records after two lookups, the first for the first record and
\* the second for the second
C21_Witness == \E s \in DOMAIN scan : /\ EmailOrPhone(s) /\ scan[s].pc = "done"
                                      /\ Len(scan[s].result) = 2 /\ Len(scan[s].lookups) = 2
                                      /\ scan[s].lookups[1].attribute = scan[s].result[1].value
                                      /\ scan[s].lookups[2].attribute = scan[s].result[2].value
                                      /\ scan[s].lookups[1].attribute # scan[s].lookups[2].attribute

\* the scan ended without a result: an exception left Plugin.scan, or the crawl raised
\* and the error record was returned
Interrupted(s) == scan[s].pc = "raised" \/ (scan[s].pc = "done" /\ IsErrorResult(scan[s].result))

\* C22: from the delete of a scan until its first insert the domain has no stored rows,
\* whatever the previous scan had stored; a scan interrupted in between leaves it so,
\* and a get that follows returns the "not yet scanned" info record.
C22_InterruptedScanLeavesNothing == \A s \in DOMAIN scan :
                                       /\ (scan[s].pc # "idle" /\ "insert" \notin Range(scan[s].log)) => StoredRows(s) = <<>>
                                       /\ Interrupted(s) => /\ "insert" \notin Range(scan[s].log)
                                                            /\ scan[s].got \in {<<>>, <<[info |-> NO_DATA_SCANNED_TEXT]>>}

\* the previous scan had stored rows, the scan that deleted them was interrupted, and
\* the get that followed returned the info record
C22_Witness == \E s \in DOMAIN scan : /\ Interrupted(s) /\ scan[s].n = 2 /\ scan[s].cleared > 0
                                      /\ StoredRows(s) = <<>>
                                      /\ scan[s].got = <<[info |-> NO_DATA_SCANNED_TEXT]>>

\* C23: between any two successive requests of the endpoint crawl to the Wayback
\* Machine (snapshot lists, robots snapshots, sitemap snapshots) a delay takes place,
\* also when the earlier request failed.
C23_DelayBetweenRequests == \A s \in DOMAIN scan : \A k \in 1..(Len(scan[s].events) - 1) :
                               ~(scan[s].events[k] = "request" /\ scan[s].events[k + 1] = "request")

\* the archived-page fetches of the email and phone scans: every fetch, failed ones
\* too, is followed by a delay before the scan goes on
C23_DelayAfterPageFetch == \A s \in DOMAIN scan : (EmailOrPhone(s) /\ scan[s].pc = "wayback") =>
                              \A k \in 1..Len(scan[s].log) : scan[s].log[k] \in {"fetch", "fetch_failed"} => (k < Len(scan[s].log) /\ scan[s].log[k + 1] = "sleep")

\* the path of the URL ends in one of the static-asset suffixes, whatever its case
IsStaticAsset(url) == \E suf \in EXCLUDE_SUFFIXES : EndsWith(Lower(UrlPath(url)), suf)

\* C24: no record the endpoint scan returns has a URL whose path ends in a static-asset
\* suffix, whichever of the three sources produced it.
C24_NoStaticAssets == \A s \in DOMAIN scan : (scan[s].plugin = "endpoint" /\ Completed(s)) =>
                         \A i \in 1..Len(scan[s].result) : ~IsStaticAsset(scan[s].result[i].url)

\* C25: the list combine_all returns for a non-empty merged map holds every merged entry
\* exactly once and nothing else; of two entries other than the root entry the one
\* with the newer snapshot date comes first, and with equal dates the one whose
\* lower-cased URL is smaller.
C25_OutputOrder == \A s \in DOMAIN scan : (scan[s].pc = "returned" /\ scan[s].combined # <<>>) =>
                      /\ Len(scan[s].result) = Len(scan[s].combined)
                      /\ \A k \in 1..Len(scan[s].combined) : Cardinality({i \in 1..Len(scan[s].result) : scan[s].result[i] = scan[s].combined[k][2]}) = 1
                      /\ \A i \in 1..Len(scan[s].result) : \A j \in (i + 1)..Len(scan[s].result) :
                           (~IsMainUrl(s, scan[s].result[i].url) /\ ~IsMainUrl(s, scan[s].result[j].url)) =>
                              \/ SnapshotDay(scan[s].result[i]) > SnapshotDay(scan[s].result[j])
                              \/ /\ SnapshotDay(scan[s].result[i]) = SnapshotDay(scan[s].result[j])
                                 /\ StrLess(Lower(scan[s].result[i].url), Lower(scan[s].result[j].url))

\* three merged entries were returned, the newest first and behind it two of one date
\* in the order of their URLs, which is not the order of the merged map
C25_Witness == \E s \in DOMAIN scan : /\ scan[s].pc = "returned" /\ Len(scan[s].result) = 3
                                      /\ SnapshotDay(scan[s].result[1]) > SnapshotDay(scan[s].result[2])
                                      /\ SnapshotDay(scan[s].result[2]) = SnapshotDay(scan[s].result[3])
                                      /\ scan[s].result # DictValues(scan[s].combined)

\* the canonical keys of the rows are in strictly ascending order
Ascending(plugin, rows) == \A i \in 1..Len(rows) : \A j \in (i + 1)..Len(rows) : StrLess(CanonicalKey(plugin, rows[i]), CanonicalKey(plugin, rows[j]))

\* C26: the reconciled list of an email or phone scan is in ascending order of the
\* canonical key (cleaned address, number); the filtered list is the reconciled one
\* without its placeholders, in the same order; the enrichment changes no value; so
\* the returned records are in ascending order.
C26_AscendingByKey == \A s \in DOMAIN scan : EmailOrPhone(s) =>
                         /\ scan[s].pc \in {"filter", "enrich", "persist", "done"} => Ascending(scan[s].plugin, scan[s].deduped)
                         /\ (scan[s].pc = "enrich" \/ (scan[s].pc \in {"persist", "done"} /\ scan[s].survivors > 0)) =>
                              /\ Ascending(scan[s].plugin, scan[s].valid)
                              /\ [i \in 1..Len(scan[s].valid) |-> scan[s].valid[i].value] = [i \in 1..Len(Filter(scan[s].deduped, KeepEntry)) |-> Filter(scan[s].deduped, KeepEntry)[i].value]
                         /\ scan[s].pc = "done" => Ascending(scan[s].plugin, scan[s].result)

\* an email scan returned two records of which the second was found first
C26_Witness == \E s \in DOMAIN scan : /\ scan[s].plugin = "email" /\ Completed(s)
                                      /\ Len(scan[s].result) = 2
                                      /\ \E a \in 1..Len(scan[s].all_entries) : \E b \in (a + 1)..Len(scan[s].all_entries) :
                                           /\ scan[s].all_entries[a].value = scan[s].result[2].value
                                           /\ scan[s].all_entries[b].value = scan[s].result[1].value
                                           /\ \A c \in 1..(b - 1) : scan[s].all_entries[c].value # scan[s].result[1].value

\* C27: a text that is the number +41 79 123 45 67 in the international form, in the
\* national form with a leading 0 or as the 0041 digit run yields the one canonical
\* number +41791234567, complete.
C27_ThreeFormsOneNumber == \A s \in DOMAIN scan : (scan[s].pc = "extracted" /\ scan[s].text \in {<<"+","4","1"," ","7","9"," ","1","2","3"," ","4","5"," ","6","7">>, <<"0","7","9"," ","1","2","3"," ","4","5"," ","6","7">>, <<"0","0","4","1","7","9","1","2","3","4","5","6","7">>}) =>
                              scan[s].numbers = <<<<"+","4","1","7","9","1","2","3","4","5","6","7">>>>

\* what the pattern does: a hit is never matched by the third alternative
C27_ThirdFormNeverMatches == \A s \in DOMAIN scan : \A pos \in 1..Len(scan[s].text) :
                                MatchFrom(scan[s].text, pos, PHONE_REGEX[3], 1) # 0 => MatchAt(scan[s].text, pos) = MatchFrom(scan[s].text, pos, PHONE_REGEX[2], 1)

\* C28: the address of every record the email scan returns and stores, the placeholder
\* apart, is its canonical key (trimmed, lower-cased, without %20), and the lookups
\* were made with these addresses.
C28_StoredAddressIsCanonical == \A s \in DOMAIN scan : (scan[s].plugin = "email" /\ Completed(s)) =>
                                   /\ \A i \in 1..Len(scan[s].result) : ~IsPlaceholder(scan[s].result[i]) => scan[s].result[i].value = _clean_email(scan[s].result[i].value)
                                   /\ \A i \in 1..Len(StoredRows(s)) : ~IsPlaceholder(StoredRows(s)[i]) => StoredRows(s)[i].value = _clean_email(StoredRows(s)[i].value)
                                   /\ \A k \in 1..Len(scan[s].lookups) : scan[s].lookups[k].attribute = _clean_email(scan[s].lookups[k].attribute)

\* what the scan does: the records carry the addresses as the adapters found them
C28_StoredAddressIsAsFound == \A s \in DOMAIN scan : (scan[s].plugin = "email" /\ Completed(s)) =>
                                 \A i \in 1..Len(scan[s].result) : ~IsPlaceholder(scan[s].result[i]) =>
                                    \E k \in 1..Len(scan[s].all_entries) : scan[s].all_entries[k].value = scan[s].result[i].value /\ scan[s].lookups[i].attribute = scan[s].result[i].value

\* C29: a pass of the loop of an email or phone scan over the stored endpoints never
\* calls the archived-page adapter for the sentinel row (URL "no data found", snapshot
\* 0000-00-00), so that no request and no date conversion is made for it.
C29_SentinelIsNoTarget == [][\A s \in DOMAIN scan : (EmailOrPhone(s) /\ scan[s].pc = "wayback" /\ scan[s].todo # <<>> /\ Len(scan'[s].calls) > Len(scan[s].calls)) =>
                                (Head(scan[s].todo).url # NO_DATA_FOUND_TEXT /\ Head(scan[s].todo).snapshot # ZERO_DATE)]_vars

\* the listings name the main URL of the domain and nothing else
OnlyMainUrlListed(s) == /\ MainUrlListed(s)
                        /\ \A i \in 1..Len(scan[s].cdx.rows) : IsMainUrl(s, scan[s].cdx.rows[i][2])
                        /\ \A i \in 1..Len(scan[s].robots.rows) : \A k \in 1..Len(scan[s].robots.rows[i][3].items) : RStripChar(Strip(scan[s].robots.rows[i][3].items[k]), "/") = <<>>
                        /\ \A i \in 1..Len(scan[s].sitemap.rows) : \A k \in 1..Len(scan[s].sitemap.rows[i][3].items) : IsMainUrl(s, Strip(scan[s].sitemap.rows[i][3].items[k]))

\* C30: no entry of the CDX, robots or sitemap map has the empty path as its key, no
\* entry of these maps or of the merged map has the main URL of the domain, the list
\* combine_all returns holds no record with the main URL, and when the listings name
\* only the main URL that list is the single "no data found" row.
C30_RootNeverEmitted == \A s \in DOMAIN scan :
                           /\ \A j \in 1..3 : \A i \in 1..Len(SourceMaps(s)[j]) : SourceMaps(s)[j][i][1] # <<>> /\ ~IsMainUrl(s, SourceMaps(s)[j][i][2].url)
                           /\ \A i \in 1..Len(scan[s].combined) : scan[s].combined[i][1] # <<>> /\ ~IsMainUrl(s, scan[s].combined[i][2].url)
                           /\ scan[s].pc = "returned" =>
                                /\ \A i \in 1..Len(scan[s].result) : ~IsMainUrl(s, scan[s].result[i].url)
                                /\ OnlyMainUrlListed(s) => scan[s].result = <<EndpointRow(NO_DATA_FOUND_TEXT, ZERO_DATE)>>

\* the CDX listing and the sitemap named the main URL and nothing else, and combine_all
\* returned the placeholder row
C30_Witness == \E s \in DOMAIN scan : /\ scan[s].pc = "returned" /\ OnlyMainUrlListed(s)
                                      /\ scan[s].cdx.rows # <<>>
                                      /\ scan[s].result = <<EndpointRow(NO_DATA_FOUND_TEXT, ZERO_DATE)>>

=============================================================================
